---- MODULE Spec2Model ----
(***************************************************************************)
(* CardVoice: the spoken-number parser and the card/quantity pair          *)
(* extractor of backend/voice/engine.py.                                   *)
(*                                                                         *)
(* A token is a sequence of one-character strings, so that the regular     *)
(* expressions and int() conversions of the parser are modelled by what    *)
(* they do on characters.  Positions (i, start) are 0-based as in the      *)
(* source; the k-th token of the source, tokens[k], is tokens[k + 1] here. *)
(* The token sequences are the output of the normaliser (text.lower(),     *)
(* the three re.sub calls and text.split()): no token is empty and none    *)
(* holds upper case, white space, a dash or one of , . ! ? ; :             *)
(***************************************************************************)
EXTENDS Integers, Sequences, FiniteSets, TLC

VARIABLES
    tokens,       \* parse_spoken_numbers: tokens = text.split()
    i,            \* parse_spoken_numbers: scan position
    results,      \* parse_spoken_numbers: the output list
    last_number,  \* parse_spoken_numbers: last appended number, or None
    start,        \* _parse_compound_number: the start index of the last call
    number,       \* value returned by the last _parse_compound_number call
    consumed,     \* consumed count returned by the last call
    matched,      \* history: values appended from a compound match
    embedded,     \* history: values appended by the embedded-digit fallback
    copies,       \* history: copies appended by multiplier expansions
    absorbed,     \* history: tokens consumed beyond the first by a compound
                  \*          match, or as the operand of an applied multiplier
    pc,           \* "scan" | "done" | "raised" (scanner), "call" | "return"
                  \* (matcher), "split" | "parts" | "done" (pair extractor)
    parts,        \* parse_card_quantities: the segments, each a token list
    p,            \* parse_card_quantities: number of segments gone through
    pairs,        \* parse_card_quantities: the output list
    how,          \* history: for each pair, its segment, the branch that set
                  \*          qty and the final explicit_qty_token
    q_before,     \* the keywords that 'q' precedes in the iteration order of
                  \* the QTY_TOKENS set, which the interpreter's string hashing
                  \* fixes anew for each process
    numbers,      \* count_cards / format_output: the argument
    counts,       \* count_cards: the dict, keys in insertion order
    cpos,         \* count_cards: number of elements gone through
    sorted_nums,  \* format_output: sorted(counts.keys())
    fparts,       \* format_output: the list 'parts' of rendered entries
    fpos,         \* format_output: number of keys gone through
    output,       \* format_output: the returned string, as characters
    stored,       \* voice_update_quantities: Card.qty of the cards of the set, by number
    calls,        \* voice_update_quantities: requests handled so far
    before,       \* history: stored before the last request
    request,      \* the last request: text tokens, set_id, insert_type
    response,     \* the last response
    max_retries,  \* TcdbClient: retries allowed after the first attempt
    retry_wait,   \* TcdbClient: wait between attempts, in hundredths of a second
    attempt,      \* get: the loop variable
    last_error,   \* get: the exception caught last
    resp,         \* get: what the call gave back: a response, an error, or nothing yet
    sent,         \* the requests the session has sent, with their outcomes
    slept,        \* the waits of time.sleep between attempts
    path_file,    \* the checkpoint file on disk
    cp_sets,      \* Checkpoint._sets
    cp_done,      \* Checkpoint._done
    marked,       \* the ids given to mark_set_done so far
    last_saved,   \* the list given to save_sets last
    is_recording, \* VoiceEngine.is_recording
    audio_queue,  \* VoiceEngine.audio_queue: the number of chunks waiting
    record_thread,\* VoiceEngine._record_thread: the capture worker created last
    process_thread,\* VoiceEngine._process_thread: the processing worker created last
    capture_state,\* the capture workers created so far: "running" or "exited"
    process_state,\* the processing workers created so far: "running" or "exited"
    engine_call   \* the call of start or stop made last

vars == <<tokens, i, results, last_number, start, number, consumed,
          matched, embedded, copies, absorbed, pc,
          parts, p, pairs, how, q_before,
          numbers, counts, cpos, sorted_nums, fparts, fpos, output,
          stored, calls, before, request, response,
          max_retries, retry_wait, attempt, last_error, resp, sent, slept,
          path_file, cp_sets, cp_done, marked, last_saved,
          is_recording, audio_queue, record_thread, process_thread, capture_state, process_state, engine_call>>

\* Python's None for an Optional[int]; every decoded number is >= 0 because the
\* normaliser removes the dashes before the text is split.
None == -1

\* ---- variable groups ----
\* The variables of parse_card_quantities, and their value while not in use.
pairVars == <<parts, p, pairs, how, q_before>>

NoPairs ==
    /\ parts = <<>>
    /\ p = 0
    /\ pairs = <<>>
    /\ how = <<>>
    /\ q_before = {}

\* The locals of parse_spoken_numbers and of the matcher, and their value
\* while the parser is not run.
scanLocals == <<i, results, last_number, start, number, consumed,
                matched, embedded, copies, absorbed>>

IdleScan ==
    /\ i = 0
    /\ results = <<>>
    /\ last_number = None
    /\ start = 0
    /\ number = None
    /\ consumed = 0
    /\ matched = 0
    /\ embedded = 0
    /\ copies = 0
    /\ absorbed = 0

\* The variables of the two parsers but pc.
parserVars == <<tokens, scanLocals, pairVars>>

IdleParser ==
    /\ tokens = <<>>
    /\ IdleScan
    /\ NoPairs

\* A dict: its keys in insertion order and its values.
EmptyDict == [keys |-> <<>>, val |-> <<>>]

\* The variables of count_cards and format_output, and their value while not in use.
formatVars == <<numbers, counts, cpos, sorted_nums, fparts, fpos, output>>

IdleFormat ==
    /\ numbers = <<>>
    /\ counts = EmptyDict
    /\ cpos = 0
    /\ sorted_nums = <<>>
    /\ fparts = <<>>
    /\ fpos = 0
    /\ output = <<>>

\* No request handled yet; no response sent yet.
NoRequest == [text |-> <<>>, set_id |-> 0, insert_type |-> ""]
NoResponse == [status |-> 0]

\* The variables of the voice-qty endpoint, and their value while not in use.
endpointVars == <<stored, calls, before, request, response>>

IdleEndpoint ==
    /\ stored = <<>>
    /\ calls = 0
    /\ before = <<>>
    /\ request = NoRequest
    /\ response = NoResponse

\* No exception caught yet; get has not finished yet.
NoError == [attempt |-> None, status |-> None]
NoResult == [kind |-> "none"]

\* The variables of TcdbClient.get, and their value while not in use.
clientVars == <<max_retries, retry_wait, attempt, last_error, resp, sent, slept>>

IdleClient ==
    /\ max_retries = 0
    /\ retry_wait = 0
    /\ attempt = 0
    /\ last_error = NoError
    /\ resp = NoResult
    /\ sent = <<>>
    /\ slept = <<>>

\* The checkpoint file does not exist; save_sets has not been called.
NoFile == [exists |-> FALSE]
NeverSaved == [given |-> FALSE, sets |-> <<>>]

\* The variables of the Checkpoint, and their value while not in use.
checkpointVars == <<path_file, cp_sets, cp_done, marked, last_saved>>

IdleCheckpoint ==
    /\ path_file = NoFile
    /\ cp_sets = <<>>
    /\ cp_done = {}
    /\ marked = {}
    /\ last_saved = NeverSaved

\* The variables of the VoiceEngine, and their value while not in use.
engineVars == <<is_recording, audio_queue, record_thread, process_thread, capture_state, process_state, engine_call>>

IdleEngine ==
    /\ is_recording = FALSE
    /\ audio_queue = 0
    /\ record_thread = None
    /\ process_thread = None
    /\ capture_state = <<>>
    /\ process_state = <<>>
    /\ engine_call = ""

\* The variables of the components other than the two parsers.
otherVars == <<formatVars, endpointVars, clientVars, checkpointVars, engineVars>>

OthersIdle ==
    /\ IdleFormat
    /\ IdleEndpoint
    /\ IdleClient
    /\ IdleCheckpoint
    /\ IdleEngine

\* What count_cards and format_output leaves alone.
exceptFormat == <<parserVars, endpointVars, clientVars, checkpointVars, engineVars>>

IdleExceptFormat ==
    /\ IdleParser
    /\ IdleEndpoint
    /\ IdleClient
    /\ IdleCheckpoint
    /\ IdleEngine

\* What the voice-qty endpoint leaves alone.
exceptEndpoint == <<parserVars, formatVars, clientVars, checkpointVars, engineVars>>

IdleExceptEndpoint ==
    /\ IdleParser
    /\ IdleFormat
    /\ IdleClient
    /\ IdleCheckpoint
    /\ IdleEngine

\* What TcdbClient.get leaves alone.
exceptClient == <<parserVars, formatVars, endpointVars, checkpointVars, engineVars>>

IdleExceptClient ==
    /\ IdleParser
    /\ IdleFormat
    /\ IdleEndpoint
    /\ IdleCheckpoint
    /\ IdleEngine

\* What the Checkpoint leaves alone.
exceptCheckpoint == <<parserVars, formatVars, endpointVars, clientVars, engineVars>>

IdleExceptCheckpoint ==
    /\ IdleParser
    /\ IdleFormat
    /\ IdleEndpoint
    /\ IdleClient
    /\ IdleEngine

\* What the VoiceEngine leaves alone.
exceptEngine == <<parserVars, formatVars, endpointVars, clientVars, checkpointVars>>

IdleExceptEngine ==
    /\ IdleParser
    /\ IdleFormat
    /\ IdleEndpoint
    /\ IdleClient
    /\ IdleCheckpoint

\* ---- end of variable groups ----

\* Bounds of the model.
MaxLen == 4
MaxWin == 5

-----------------------------------------------------------------------------
(* Lexicon *)

WORD_TO_NUM ==
       <<"z","e","r","o">> :> 0
    @@ <<"o","n","e">> :> 1
    @@ <<"t","w","o">> :> 2
    @@ <<"t","h","r","e","e">> :> 3
    @@ <<"f","o","u","r">> :> 4
    @@ <<"f","i","v","e">> :> 5
    @@ <<"s","i","x">> :> 6
    @@ <<"s","e","v","e","n">> :> 7
    @@ <<"e","i","g","h","t">> :> 8
    @@ <<"n","i","n","e">> :> 9
    @@ <<"w","o","n">> :> 1
    @@ <<"w","a","n">> :> 1
    @@ <<"w","u","n">> :> 1
    @@ <<"t","o">> :> 2
    @@ <<"t","o","o">> :> 2
    @@ <<"t","u">> :> 2
    @@ <<"t","e","w">> :> 2
    @@ <<"t","r","e","e">> :> 3
    @@ <<"f","r","e","e">> :> 3
    @@ <<"f","o","r">> :> 4
    @@ <<"f","o","r","e">> :> 4
    @@ <<"f","o">> :> 4
    @@ <<"f","i","f","e">> :> 5
    @@ <<"s","i","c","k">> :> 6
    @@ <<"s","i","c","k","s">> :> 6
    @@ <<"a","t","e">> :> 8
    @@ <<"n","e","i","n">> :> 9
    @@ <<"t","e","n">> :> 10
    @@ <<"t","i","n">> :> 10
    @@ <<"e","l","e","v","e","n">> :> 11
    @@ <<"t","w","e","l","v","e">> :> 12
    @@ <<"t","h","i","r","t","e","e","n">> :> 13
    @@ <<"f","o","u","r","t","e","e","n">> :> 14
    @@ <<"f","i","f","t","e","e","n">> :> 15
    @@ <<"s","i","x","t","e","e","n">> :> 16
    @@ <<"s","e","v","e","n","t","e","e","n">> :> 17
    @@ <<"e","i","g","h","t","e","e","n">> :> 18
    @@ <<"n","i","n","e","t","e","e","n">> :> 19
    @@ <<"t","w","e","n","t","y">> :> 20
    @@ <<"t","h","i","r","t","y">> :> 30
    @@ <<"f","o","r","t","y">> :> 40
    @@ <<"f","o","u","r","t","y">> :> 40
    @@ <<"f","i","f","t","y">> :> 50
    @@ <<"f","i","t","t","y">> :> 50
    @@ <<"s","i","x","t","y">> :> 60
    @@ <<"s","e","v","e","n","t","y">> :> 70
    @@ <<"e","i","g","h","t","y">> :> 80
    @@ <<"n","i","n","e","t","y">> :> 90
    @@ <<"h","u","n","d","r","e","d">> :> 100

MULT_WORDS ==
    { <<"t","i","m","e","s">>,
      <<"x">>,
      <<"o","f">>,
      <<"c","o","u","n","t">>,
      <<"q","u","a","n","t","i","t","y">>,
      <<"q","t","y">>,
      <<"s","t","o","c","k">>,
      <<"c","o","p","i","e","s">>,
      <<"c","o","p","y">>,
      <<"e","x">> }

SKIP_WORDS ==
    { <<"a","n","d">>,
      <<"t","h","e">>,
      <<"a">>,
      <<"a","n">>,
      <<"u","m">>,
      <<"u","h">>,
      <<"l","i","k","e">>,
      <<"o","k","a","y">>,
      <<"o","k">>,
      <<"c","a","r","d">>,
      <<"n","u","m","b","e","r">>,
      <<"h","a","s","h">>,
      <<"p","o","u","n","d">>,
      <<"n","e","x","t">>,
      <<"t","h","e","n">>,
      <<"a","l","s","o">>,
      <<"h","a","v","e">>,
      <<"g","o","t">>,
      <<"n","e","e","d">>,
      <<"w","a","n","t">>,
      <<"i","s">>,
      <<"a","r","e">>,
      <<"i","t">>,
      <<"t","h","a","t">>,
      <<"t","h","i","s">>,
      <<"s","o">>,
      <<"y","e","a","h">>,
      <<"y","e","s">>,
      <<"n","o">>,
      <<"n","o","t">>,
      <<"w","i","t","h">>,
      <<"f","r","o","m">> }

HUNDRED == <<"h","u","n","d","r","e","d">>
AND == <<"a","n","d">>

\* Range of a card number kept in the output, and of an applied multiplier.
MIN_NUMBER == 1
MAX_NUMBER == 9999
MIN_MULT == 1
MAX_MULT == 50

-----------------------------------------------------------------------------
(* Characters, digit strings and int() *)

Digits == {"0", "1", "2", "3", "4", "5", "6", "7", "8", "9"}

DigitValue(c) ==
    CASE c = "0" -> 0 [] c = "1" -> 1 [] c = "2" -> 2 [] c = "3" -> 3
      [] c = "4" -> 4 [] c = "5" -> 5 [] c = "6" -> 6 [] c = "7" -> 7
      [] c = "8" -> 8 [] c = "9" -> 9

\* re.match(r'^\d+$', token)
IsAllDigits(token) ==
    /\ Len(token) > 0
    /\ \A k \in 1..Len(token) : token[k] \in Digits

\* int() of a string of decimal digits (leading zeros allowed).
RECURSIVE DecimalValue(_)
DecimalValue(ds) ==
    IF ds = <<>> THEN 0
    ELSE 10 * DecimalValue(SubSeq(ds, 1, Len(ds) - 1)) + DigitValue(ds[Len(ds)])

\* The interpreter's limit on the number of digits int() converts (CPython
\* 3.11 and later, and the security releases of 3.7 to 3.10): a string with
\* more digits makes int() raise ValueError.
INT_MAX_STR_DIGITS == 4300

\* More than INT_MAX_STR_DIGITS of the characters of s are digits.
OverDigitLimit(s) ==
    /\ Len(s) > INT_MAX_STR_DIGITS
    /\ Cardinality({k \in 1..Len(s) : s[k] \in Digits}) > INT_MAX_STR_DIGITS

\* Some run of digits in the token is longer than INT_MAX_STR_DIGITS: int()
\* raises on the all-digit token at line 146, or on the run at line 113.
HasLongDigitRun(token) ==
    /\ Len(token) > INT_MAX_STR_DIGITS
    /\ \E a \in 1..(Len(token) - INT_MAX_STR_DIGITS) :
           {k \in a..(a + INT_MAX_STR_DIGITS) : token[k] \notin Digits} = {}

\* The characters of s that are not "_", in order.
RECURSIVE WithoutUnderscores(_)
WithoutUnderscores(s) ==
    IF s = <<>> THEN <<>>
    ELSE IF Head(s) = "_" THEN WithoutUnderscores(Tail(s))
    ELSE <<Head(s)>> \o WithoutUnderscores(Tail(s))

\* int(token) for a token of the normalised text: an optional "+" sign, then
\* decimal digits in which single underscores may stand between two digits.
\* None stands for ValueError, which a string over the digit limit raises too.
IntOf(token) ==
    LET body == IF Len(token) > 0 /\ token[1] = "+" THEN Tail(token) ELSE token
        wellFormed ==
            /\ Len(body) > 0
            /\ body[1] \in Digits
            /\ body[Len(body)] \in Digits
            /\ \A k \in 1..Len(body) : body[k] \in Digits \cup {"_"}
            /\ \A k \in 1..(Len(body) - 1) : ~(body[k] = "_" /\ body[k + 1] = "_")
    IN  IF wellFormed /\ ~OverDigitLimit(body)
        THEN DecimalValue(WithoutUnderscores(body)) ELSE None

\* _parse_single_number(token)
ParseSingleNumber(token) ==
    IF token \in DOMAIN WORD_TO_NUM THEN WORD_TO_NUM[token] ELSE IntOf(token)

\* re.findall(r'\d+', token): the maximal runs of digits, left to right.
RECURSIVE FindDigitRuns(_)
FindDigitRuns(token) ==
    IF token = <<>> THEN <<>>
    ELSE IF Head(token) \notin Digits THEN FindDigitRuns(Tail(token))
    ELSE LET n == CHOOSE m \in 1..Len(token) :
                      /\ \A k \in 1..m : token[k] \in Digits
                      /\ (m = Len(token) \/ token[m + 1] \notin Digits)
         IN  <<SubSeq(token, 1, n)>> \o FindDigitRuns(SubSeq(token, n + 1, Len(token)))

-----------------------------------------------------------------------------
(* _parse_compound_number *)

\* Mutant of InRange: the upper limit of a card number is not tested.
InRange_NoUpper(v) == MIN_NUMBER <= v

\* Mutant of InRange: the lower limit of a card number is not tested.
InRange_NoLower(v) == v <= MAX_NUMBER

\* 1 <= number <= 9999
InRange(v) == MIN_NUMBER <= v /\ v <= MAX_NUMBER

\* Mutant of ValidMult: the upper limit of a multiplier is not tested.
ValidMult_NoUpper(m) == MIN_MULT <= m

\* 1 <= mult <= 50
ValidMult(m) == MIN_MULT <= m /\ m <= MAX_MULT

\* lines 160-162: the consumed count after the optional "and" behind "hundred"
SkipAnd(toks, st, cons) ==
    IF st + cons < Len(toks) /\ toks[st + cons + 1] = AND THEN cons + 1 ELSE cons

\* Mutant of OnesAfterTens: the ones digit is counted twice in consumed.
OnesAfterTens_CountsTwice(toks, st, value, cons) ==
    IF st + cons < Len(toks)
    THEN LET ones_val == ParseSingleNumber(toks[st + cons + 1])
         IN  IF ones_val # None /\ 1 <= ones_val /\ ones_val <= 9
             THEN [number |-> value + ones_val, consumed |-> cons + 2]
             ELSE [number |-> value, consumed |-> cons]
    ELSE [number |-> value, consumed |-> cons]

\* lines 173-179: the ones digit after a tens value in the hundred branch
OnesAfterTens(toks, st, value, cons) ==
    IF st + cons < Len(toks)
    THEN LET ones_val == ParseSingleNumber(toks[st + cons + 1])
         IN  IF ones_val # None /\ 1 <= ones_val /\ ones_val <= 9
             THEN [number |-> value + ones_val, consumed |-> cons + 1]
             ELSE [number |-> value, consumed |-> cons]
    ELSE [number |-> value, consumed |-> cons]

\* Mutant of HundredTail: a ones digit is also looked for after a value in
\* 1..19 (one test 1 <= next_val <= 90 instead of the two ranges).
HundredTail_OnesAfterTeens(toks, st, value, cons) ==
    IF st + cons < Len(toks)
    THEN LET next_val == ParseSingleNumber(toks[st + cons + 1])
         IN  IF next_val # None /\ 1 <= next_val /\ next_val <= 90
             THEN OnesAfterTens(toks, st, value + next_val, cons + 1)
             ELSE [number |-> value, consumed |-> cons]
    ELSE [number |-> value, consumed |-> cons]

\* lines 163-180: the tens/ones tail of the hundred branch, from consumed = cons
HundredTail(toks, st, value, cons) ==
    IF st + cons < Len(toks)
    THEN LET next_val == ParseSingleNumber(toks[st + cons + 1])
         IN  IF next_val # None /\ 1 <= next_val /\ next_val <= 19
             THEN [number |-> value + next_val, consumed |-> cons + 1]
             ELSE IF next_val # None /\ 20 <= next_val /\ next_val <= 90
             THEN OnesAfterTens(toks, st, value + next_val, cons + 1)
             ELSE [number |-> value, consumed |-> cons]
    ELSE [number |-> value, consumed |-> cons]

\* lines 156-180: "<1..9> hundred [and] [tail]"
HundredBranch(toks, st, value) ==
    HundredTail(toks, st, value * 100, SkipAnd(toks, st, 2))

\* Mutant of TensBranch: consumed is 2 whether or not a ones digit was added.
TensBranch_AlwaysTwo(toks, st, value) ==
    IF st + 1 < Len(toks)
    THEN LET next_val == ParseSingleNumber(toks[st + 2])
         IN  IF next_val # None /\ 1 <= next_val /\ next_val <= 9
             THEN [number |-> value + next_val, consumed |-> 2]
             ELSE [number |-> value, consumed |-> 2]
    ELSE [number |-> value, consumed |-> 2]

\* Mutant of TensBranch: an "and" behind the tens word is skipped as it is
\* behind "hundred".
TensBranch_ThroughAnd(toks, st, value) ==
    LET cons == SkipAnd(toks, st, 1) IN
    IF st + cons < Len(toks)
    THEN LET next_val == ParseSingleNumber(toks[st + cons + 1])
         IN  IF next_val # None /\ 1 <= next_val /\ next_val <= 9
             THEN [number |-> value + next_val, consumed |-> cons + 1]
             ELSE [number |-> value, consumed |-> 1]
    ELSE [number |-> value, consumed |-> 1]

\* Mutant of TensBranch: the token behind the tens word is added when it is
\* in 1..19 instead of 1..9.
TensBranch_Teens(toks, st, value) ==
    IF st + 1 < Len(toks)
    THEN LET next_val == ParseSingleNumber(toks[st + 2])
         IN  IF next_val # None /\ 1 <= next_val /\ next_val <= 19
             THEN [number |-> value + next_val, consumed |-> 2]
             ELSE [number |-> value, consumed |-> 1]
    ELSE [number |-> value, consumed |-> 1]

\* lines 183-190: "<tens> [ones]"
TensBranch(toks, st, value) ==
    IF st + 1 < Len(toks)
    THEN LET next_val == ParseSingleNumber(toks[st + 2])
         IN  IF next_val # None /\ 1 <= next_val /\ next_val <= 9
             THEN [number |-> value + next_val, consumed |-> 2]
             ELSE [number |-> value, consumed |-> 1]
    ELSE [number |-> value, consumed |-> 1]

\* Mutant of DigitToken: an all-digit token behind an all-digit token is read
\* as more digits of the same number.
DigitToken_Merge(toks, st) ==
    IF st + 1 < Len(toks) /\ IsAllDigits(toks[st + 2])
    THEN [number |-> DecimalValue(toks[st + 1] \o toks[st + 2]), consumed |-> 2]
    ELSE [number |-> DecimalValue(toks[st + 1]), consumed |-> 1]

\* lines 145-146: an all-digit token is its own number
DigitToken(toks, st) ==
    [number |-> DecimalValue(toks[st + 1]), consumed |-> 1]

\* _parse_compound_number(tokens, start) -> (number, consumed)
ParseCompoundNumber(toks, st) ==
    IF st >= Len(toks) THEN [number |-> None, consumed |-> 0]
    ELSE LET token == toks[st + 1] IN
         IF IsAllDigits(token) THEN DigitToken(toks, st)
         ELSE IF token \notin DOMAIN WORD_TO_NUM THEN [number |-> None, consumed |-> 0]
         ELSE LET value == WORD_TO_NUM[token] IN
              IF /\ 1 <= value /\ value <= 9
                 /\ st + 1 < Len(toks)
                 /\ toks[st + 2] = HUNDRED
              THEN HundredBranch(toks, st, value)
              ELSE IF 20 <= value /\ value <= 90
              THEN TensBranch(toks, st, value)
              ELSE [number |-> value, consumed |-> 1]

-----------------------------------------------------------------------------
(* Inputs *)

\* Tokens the bounded inputs are drawn from: digit strings inside and outside
\* 1..9999 and 1..50, lexicon words of each range the grammar tests, a skip
\* word, a multiplier word, a token with embedded digits and an unknown word.
Tok1 == <<"1">>
Tok51 == <<"5","1">>
Tok0 == <<"0">>
Tok10000 == <<"1","0","0","0","0">>
TokThree == <<"t","h","r","e","e">>
TokForty == <<"f","o","r","t","y">>
TokTwelve == <<"t","w","e","l","v","e">>
TokTimes == <<"t","i","m","e","s">>
Tok55q20 == <<"5","5","q","2","0">>
TokOr == <<"o","r">>

Vocabulary ==
    { Tok1, Tok51, Tok0, Tok10000, TokThree, HUNDRED, AND, TokForty, TokTwelve,
      TokTimes, Tok55q20, TokOr }

\* The window of the compound grammar: what the matcher can absorb, and what
\* stops it.
WindowVocabulary ==
    { Tok1, Tok51, TokThree, HUNDRED, AND, TokForty, TokTwelve, TokOr }

SeqsUpTo(S, n) == UNION { [1..k -> S] : k \in 0..n }

-----------------------------------------------------------------------------
(* parse_spoken_numbers: the scan loop *)

Init ==
    /\ tokens \in SeqsUpTo(Vocabulary, MaxLen)
    /\ NoPairs
    /\ OthersIdle
    /\ i = 0
    /\ results = <<>>
    /\ last_number = None
    /\ start = 0
    /\ number = None
    /\ consumed = 0
    /\ matched = 0
    /\ embedded = 0
    /\ copies = 0
    /\ absorbed = 0
    /\ pc = "scan"

\* lines 80-81: the loop condition holds and the token at i is read
AtToken == pc = "scan" /\ i < Len(tokens)

Token == tokens[i + 1]

\* line 89: the multiplier rule applies to the token at i
IsMultiplier == Token \in MULT_WORDS /\ last_number # None

\* Mutant of Operand: the operand is read with the compound matcher.
Operand_Compound ==
    IF i + 1 < Len(tokens)
    THEN LET mult == ParseCompoundNumber(tokens, i + 1).number
         IN  IF mult # None /\ ValidMult(mult) THEN mult ELSE None
    ELSE None

\* lines 90-92: the operand of the multiplier at i, or None
Operand ==
    IF i + 1 < Len(tokens)
    THEN LET mult == ParseSingleNumber(tokens[i + 2])
         IN  IF mult # None /\ ValidMult(mult) THEN mult ELSE None
    ELSE None

\* Mutant of Expand: mult copies are appended instead of mult - 1.
Expand_OneTooMany(res, v, mult) == res \o [k \in 1..mult |-> v]

\* Mutant of Expand: the copies replace the output instead of extending it.
Expand_Overwrite(res, v, mult) == [k \in 1..(mult - 1) |-> v]

\* Mutant of Expand: the multiplier applies to all that was emitted, so that
\* chained multipliers multiply.
Expand_Multiplies(res, v, mult) == res \o [k \in 1..(Len(res) * (mult - 1)) |-> v]

\* lines 94-95: (mult - 1) more copies of last_number
Expand(res, v, mult) == res \o [k \in 1..(mult - 1) |-> v]

\* lines 110-116: the in-range values of the digit runs of the token
EmbeddedValues(token) ==
    LET runs == FindDigitRuns(token)
        vals == [k \in 1..Len(runs) |-> DecimalValue(runs[k])]
    IN  SelectSeq(vals, InRange)

\* Mutant of LastAfterRuns: the first of the values is remembered.
LastAfterRuns_First(last, vals) == IF vals = <<>> THEN last ELSE vals[1]

\* lines 112-116: last_number after the values of a token's digit runs have
\* been appended
LastAfterRuns(last, vals) == IF vals = <<>> THEN last ELSE vals[Len(vals)]

\* Mutant of SkipWord: a skip word also forgets the last number.
SkipWord_ForgetsLast ==
    /\ AtToken
    /\ Token \in SKIP_WORDS
    /\ i' = i + 1
    /\ last_number' = None
    /\ UNCHANGED pairVars
    /\ UNCHANGED otherVars
    /\ UNCHANGED <<tokens, results, start, number, consumed,
                   matched, embedded, copies, absorbed, pc>>

\* lines 84-86
SkipWord ==
    /\ AtToken
    /\ Token \in SKIP_WORDS
    /\ i' = i + 1
    /\ UNCHANGED pairVars
    /\ UNCHANGED otherVars
    /\ UNCHANGED <<tokens, results, last_number, start, number, consumed,
                   matched, embedded, copies, absorbed, pc>>

\* lines 89-97: a multiplier word with a usable operand
MultiplierApply ==
    /\ AtToken
    /\ Token \notin SKIP_WORDS
    /\ IsMultiplier
    /\ Operand # None
    /\ results' = Expand(results, last_number, Operand)
    /\ i' = i + 2
    /\ copies' = copies + (Operand - 1)
    /\ absorbed' = absorbed + 1
    /\ UNCHANGED pairVars
    /\ UNCHANGED otherVars
    /\ UNCHANGED <<tokens, last_number, start, number, consumed, matched,
                   embedded, pc>>

\* lines 89-99: a multiplier word without a usable operand
MultiplierSkip ==
    /\ AtToken
    /\ Token \notin SKIP_WORDS
    /\ IsMultiplier
    /\ Operand = None
    /\ i' = i + 1
    /\ UNCHANGED pairVars
    /\ UNCHANGED otherVars
    /\ UNCHANGED <<tokens, results, last_number, start, number, consumed,
                   matched, embedded, copies, absorbed, pc>>

\* lines 102-107: the compound matcher returns a number in 1..9999
CompoundAppend ==
    /\ AtToken
    /\ Token \notin SKIP_WORDS
    /\ ~IsMultiplier
    /\ ~HasLongDigitRun(Token)
    /\ LET r == ParseCompoundNumber(tokens, i) IN
       /\ r.number # None /\ InRange(r.number)
       /\ start' = i
       /\ number' = r.number
       /\ consumed' = r.consumed
       /\ results' = Append(results, r.number)
       /\ last_number' = r.number
       /\ i' = i + r.consumed
       /\ matched' = matched + 1
       /\ absorbed' = absorbed + (r.consumed - 1)
    /\ UNCHANGED pairVars
    /\ UNCHANGED otherVars
    /\ UNCHANGED <<tokens, embedded, copies, pc>>

\* lines 102-117: no number in 1..9999 from the matcher; the digit runs of the
\* token are tried
FallbackDigits ==
    /\ AtToken
    /\ Token \notin SKIP_WORDS
    /\ ~IsMultiplier
    /\ ~HasLongDigitRun(Token)
    /\ LET r == ParseCompoundNumber(tokens, i)
           vals == EmbeddedValues(Token)
       IN
       /\ ~(r.number # None /\ InRange(r.number))
       /\ start' = i
       /\ number' = r.number
       /\ consumed' = r.consumed
       /\ results' = results \o vals
       /\ last_number' = LastAfterRuns(last_number, vals)
       /\ i' = i + 1
       /\ embedded' = embedded + Len(vals)
    /\ UNCHANGED pairVars
    /\ UNCHANGED otherVars
    /\ UNCHANGED <<tokens, matched, copies, absorbed, pc>>

\* lines 80, 119: the loop condition fails and results is returned
Return ==
    /\ pc = "scan"
    /\ ~(i < Len(tokens))
    /\ pc' = "done"
    /\ UNCHANGED pairVars
    /\ UNCHANGED otherVars
    /\ UNCHANGED <<tokens, i, results, last_number, start, number, consumed,
                   matched, embedded, copies, absorbed>>

\* lines 146 and 113: int() raises ValueError outside any try block and the
\* exception leaves parse_spoken_numbers
RaiseValueError ==
    /\ AtToken
    /\ Token \notin SKIP_WORDS
    /\ ~IsMultiplier
    /\ HasLongDigitRun(Token)
    /\ pc' = "raised"
    /\ UNCHANGED pairVars
    /\ UNCHANGED otherVars
    /\ UNCHANGED <<tokens, i, results, last_number, start, number, consumed,
                   matched, embedded, copies, absorbed>>

Next ==
    \/ SkipWord
    \/ MultiplierApply
    \/ MultiplierSkip
    \/ CompoundAppend
    \/ FallbackDigits
    \/ Return

Spec == Init /\ [][Next]_vars

\* lines 80-119 as a function: the list returned when the loop is entered at
\* position pos with the output res and last_number = last (for tokens within
\* the digit limit of int()).
RECURSIVE ScanFrom(_, _, _, _)
ScanFrom(toks, pos, res, last) ==
    IF pos >= Len(toks) THEN res
    ELSE LET token == toks[pos + 1] IN
         IF token \in SKIP_WORDS THEN ScanFrom(toks, pos + 1, res, last)
         ELSE IF token \in MULT_WORDS /\ last # None
         THEN LET mult == IF pos + 1 < Len(toks)
                          THEN ParseSingleNumber(toks[pos + 2]) ELSE None
              IN  IF mult # None /\ ValidMult(mult)
                  THEN ScanFrom(toks, pos + 2, Expand(res, last, mult), last)
                  ELSE ScanFrom(toks, pos + 1, res, last)
         ELSE LET r == ParseCompoundNumber(toks, pos) IN
              IF r.number # None /\ InRange(r.number)
              THEN ScanFrom(toks, pos + r.consumed, Append(res, r.number), r.number)
              ELSE LET vals == EmbeddedValues(token)
                   IN  ScanFrom(toks, pos + 1, res \o vals,
                                LastAfterRuns(last, vals))

\* parse_spoken_numbers on a token sequence
ParseSpokenNumbers(toks) == ScanFrom(toks, 0, <<>>, None)

-----------------------------------------------------------------------------
(* _parse_compound_number as a function of a window and a start index *)

InitCompound ==
    /\ tokens \in SeqsUpTo(WindowVocabulary, MaxWin)
    /\ NoPairs
    /\ OthersIdle
    /\ start \in 0..Len(tokens)
    /\ i = 0
    /\ results = <<>>
    /\ last_number = None
    /\ number = None
    /\ consumed = 0
    /\ matched = 0
    /\ embedded = 0
    /\ copies = 0
    /\ absorbed = 0
    /\ pc = "call"

\* number, consumed = _parse_compound_number(tokens, start)
CallCompound ==
    /\ pc = "call"
    /\ LET r == ParseCompoundNumber(tokens, start) IN
       /\ number' = r.number
       /\ consumed' = r.consumed
    /\ pc' = "return"
    /\ UNCHANGED pairVars
    /\ UNCHANGED otherVars
    /\ UNCHANGED <<tokens, i, results, last_number, start, matched, embedded,
                   copies, absorbed>>

NextCompound == CallCompound

SpecCompound == InitCompound /\ [][NextCompound]_vars

-----------------------------------------------------------------------------
(* Properties of parse_spoken_numbers *)

\* The single-token decode of the k-th token (1-based), None if it has none.
Decoded(k) == IF k \in 1..Len(tokens) THEN ParseSingleNumber(tokens[k]) ELSE None

\* The number the k-th token (1-based) stands for when it is a lexicon word or
\* an all-digit token, None for any other token.
Alone(k) ==
    IF k \notin 1..Len(tokens) THEN None
    ELSE IF IsAllDigits(tokens[k]) THEN DecimalValue(tokens[k])
    ELSE IF tokens[k] \in DOMAIN WORD_TO_NUM THEN WORD_TO_NUM[tokens[k]]
    ELSE None

\* C1: every element of the output of parse_spoken_numbers is an integer in
\* 1..9999, whether it was appended from a compound match, by the
\* embedded-digit fallback or as a copy made by a multiplier expansion.
C1_OutputInRange ==
    \A k \in 1..Len(results) : results[k] \in 1..9999

\* A finished scan whose output holds values of all three origins.
C1_Witness ==
    /\ pc = "done"
    /\ matched > 0
    /\ embedded > 0
    /\ copies > 0

\* C2: every iteration of the scan loop moves the position forward by at least
\* one token and never past the end of the token sequence, so the loop ends
\* after at most len(tokens) iterations.
C2_ScanAdvances ==
    [][ (pc = "scan" /\ pc' = "scan")
            => (i' >= i + 1 /\ i' <= Len(tokens) /\ tokens' = tokens) ]_vars

\* A scan that ended at the end of the sequence after a compound match, an
\* applied multiplier (two tokens) and a skip word.
C2_Witness ==
    /\ pc = "done"
    /\ i = Len(tokens)
    /\ Len(tokens) = 4
    /\ matched > 0
    /\ copies > 0
    /\ tokens[4] \in SKIP_WORDS

\* C3: with last_number = v, a multiplier word whose next token single-decodes
\* to m in 1..50 appends exactly m - 1 copies of v, consumes both tokens and
\* leaves last_number = v; so "<v> <multiplier> <m>" yields m copies of v.
C3_MultiplierExpands ==
    /\ [][ ( /\ pc = "scan"
             /\ i + 1 < Len(tokens)
             /\ tokens[i + 1] \in MULT_WORDS
             /\ last_number # None
             /\ Decoded(i + 2) \in 1..50 )
           => ( /\ Len(results') = Len(results) + Decoded(i + 2) - 1
                /\ SubSeq(results', 1, Len(results)) = results
                /\ \A k \in (Len(results) + 1)..Len(results') :
                       results'[k] = last_number
                /\ i' = i + 2
                /\ last_number' = last_number ) ]_vars
    /\ [] ( ( /\ pc = "done"
              /\ Len(tokens) = 3
              /\ IsAllDigits(tokens[1])
              /\ DecimalValue(tokens[1]) \in 1..9999
              /\ tokens[2] \in MULT_WORDS
              /\ Decoded(3) \in 1..50 )
            => results = [k \in 1..Decoded(3) |-> DecimalValue(tokens[1])] )

\* "<v> <multiplier> <m>" was parsed into m > 1 values.
C3_Witness ==
    /\ pc = "done"
    /\ Len(tokens) = 3
    /\ IsAllDigits(tokens[1])
    /\ tokens[2] \in MULT_WORDS
    /\ Decoded(3) \in 2..50
    /\ Len(results) = Decoded(3)

\* C4: with last_number set, a multiplier word whose next token is missing,
\* does not decode, or decodes outside 1..50 appends nothing and consumes the
\* multiplier word alone; the next token is then parsed at the next position,
\* so "<v> <multiplier> <t>" with such a number token t gives v followed by t
\* when t is in 1..9999 and v alone when it is not.
C4_MultiplierRejected ==
    /\ [][ ( /\ pc = "scan"
             /\ i < Len(tokens)
             /\ tokens[i + 1] \in MULT_WORDS
             /\ last_number # None
             /\ Decoded(i + 2) \notin 1..50 )
           => ( /\ results' = results
                /\ i' = i + 1
                /\ last_number' = last_number
                /\ pc' = "scan" ) ]_vars
    /\ [] ( ( /\ pc = "done"
              /\ Len(tokens) = 3
              /\ IsAllDigits(tokens[1])
              /\ DecimalValue(tokens[1]) \in 1..9999
              /\ tokens[2] \in MULT_WORDS
              /\ Alone(3) # None
              /\ Alone(3) \notin 1..50 )
            => results = IF Alone(3) \in 1..9999
                         THEN <<DecimalValue(tokens[1]), Alone(3)>>
                         ELSE <<DecimalValue(tokens[1])>> )

\* "<v> <multiplier> <t>" with t a number above 50 was parsed into <<v, t>>.
C4_Witness ==
    /\ pc = "done"
    /\ Len(tokens) = 3
    /\ IsAllDigits(tokens[1])
    /\ tokens[2] \in MULT_WORDS
    /\ Alone(3) \in 51..9999
    /\ results = <<DecimalValue(tokens[1]), Alone(3)>>

\* The number of tokens that decode on their own (single-token decode) to a
\* value in 1..9999.
DecodableTokens ==
    Cardinality({ k \in 1..Len(tokens) : Decoded(k) \in 1..9999 })

\* C5 as stated: the output is at least as long as the number of tokens that
\* decode on their own to a value in 1..9999, and longer only when a multiplier
\* expansion appended copies.
C5_AsStated ==
    pc = "done" =>
        /\ Len(results) >= DecodableTokens
        /\ (Len(results) > DecodableTokens => copies > 0)

\* C5 (amended): the output is at least as long as the number of tokens that
\* decode on their own to a value in 1..9999, less the tokens absorbed behind
\* the first token of a compound match or consumed as the operand of an applied
\* multiplier; it is longer than that number of tokens only when a multiplier
\* expansion appended copies or the embedded-digit fallback appended values.
C5_LengthBounds ==
    pc = "done" =>
        /\ Len(results) >= DecodableTokens - absorbed
        /\ (Len(results) > DecodableTokens => (copies > 0 \/ embedded > 0))

\* A finished scan in which a compound match absorbed tokens, so that the
\* output is shorter than the number of decodable tokens.
C5_Witness ==
    /\ pc = "done"
    /\ absorbed > 0
    /\ copies = 0
    /\ DecodableTokens > Len(results)
    /\ Len(results) = DecodableTokens - absorbed

-----------------------------------------------------------------------------
(* Properties of _parse_compound_number *)

\* The token at 0-based position k is a lexicon word with a value in lo..hi.
WordIn(k, lo, hi) ==
    /\ k < Len(tokens)
    /\ tokens[k + 1] \in DOMAIN WORD_TO_NUM
    /\ WORD_TO_NUM[tokens[k + 1]] \in lo..hi

\* The matcher has returned for a window "<word 1..9> hundred ...".
HundredWindow ==
    /\ pc = "return"
    /\ WordIn(start, 1, 9)
    /\ start + 1 < Len(tokens)
    /\ tokens[start + 2] = HUNDRED

C8_TensGrammar ==
    (pc = "return" /\ WordIn(start, 20, 90)) =>
        LET tens == WORD_TO_NUM[tokens[start + 1]]
            ones == Decoded(start + 2)
        IN  IF ones \in 1..9
            THEN number = tens + ones /\ consumed = 2
            ELSE number = tens /\ consumed = 1

\* A tens word followed by a digit token in 1..9 was merged with it.
C8_Witness ==
    /\ pc = "return"
    /\ WordIn(start, 20, 90)
    /\ start + 2 < Len(tokens)
    /\ IsAllDigits(tokens[start + 2])
    /\ consumed = 2
    /\ number = WORD_TO_NUM[tokens[start + 1]] + DecimalValue(tokens[start + 2])

\* C10 as stated: a successful match consumes between 1 and 3 tokens.
C10_AsStated ==
    (pc = "return" /\ number # None) => consumed \in 1..3

\* C10 (amended): a successful match consumes between 1 and 5 tokens
\* ("<1..9> hundred and <tens> <ones>" consumes 5).
C10_ConsumedBounds ==
    (pc = "return" /\ number # None) => consumed \in 1..5

\* A match of five tokens.
C10_Witness ==
    /\ pc = "return"
    /\ number # None
    /\ consumed = 5

-----------------------------------------------------------------------------
(* Properties of the scan that rest on the compound grammar *)

\* The token at 1-based index k is a skip word or a word that neither decodes
\* nor holds a digit.
Filler(k) ==
    \/ tokens[k] \in SKIP_WORDS
    \/ /\ tokens[k] \notin MULT_WORDS
       /\ Decoded(k) = None
       /\ FindDigitRuns(tokens[k]) = <<>>

AllDigitTokens ==
    \A k \in 1..Len(tokens) :
        IsAllDigits(tokens[k]) /\ DecimalValue(tokens[k]) \in 1..9999

\* C9: for a token sequence of all-digit tokens with values in 1..9999, the
\* output is exactly those values, one per token, in input order; adjacent
\* digit tokens are not merged and equal values are not collapsed.
C9_DigitTokensVerbatim ==
    (pc = "done" /\ AllDigitTokens) =>
        results = [k \in 1..Len(tokens) |-> DecimalValue(tokens[k])]

\* Three equal digit tokens gave three equal values.
C9_Witness ==
    /\ pc = "done"
    /\ AllDigitTokens
    /\ Len(tokens) = 3
    /\ tokens[1] = tokens[2]
    /\ tokens[2] = tokens[3]
    /\ Len(results) = 3

-----------------------------------------------------------------------------
(* Frame properties of the scan *)

\* C11: a skip word moves the position by one and leaves the output and
\* last_number as they are; last_number changes only in a step that appends a
\* number, to the number appended last; so a multiplier phrase behind a number
\* v and a skip word still expands v.
C11_SkipWordFrame ==
    /\ [][ (pc = "scan" /\ i < Len(tokens) /\ tokens[i + 1] \in SKIP_WORDS)
           => ( /\ i' = i + 1
                /\ results' = results
                /\ last_number' = last_number
                /\ pc' = "scan" ) ]_vars
    /\ [][ last_number' # last_number
           => ( /\ Len(results') > Len(results)
                /\ last_number' = results'[Len(results')] ) ]_vars
    /\ [] ( ( /\ pc = "done"
              /\ Len(tokens) = 4
              /\ IsAllDigits(tokens[1])
              /\ DecimalValue(tokens[1]) \in 1..9999
              /\ tokens[2] \in SKIP_WORDS
              /\ tokens[3] \in MULT_WORDS
              /\ Decoded(4) \in 1..50 )
            => results = [k \in 1..Decoded(4) |-> DecimalValue(tokens[1])] )

\* "<v> <skip word> <multiplier> <m>" was parsed into m > 1 copies of v.
C11_Witness ==
    /\ pc = "done"
    /\ Len(tokens) = 4
    /\ IsAllDigits(tokens[1])
    /\ tokens[2] \in SKIP_WORDS
    /\ tokens[3] \in MULT_WORDS
    /\ Decoded(4) \in 2..50
    /\ Len(results) = Decoded(4)
    /\ copies = Decoded(4) - 1

\* The k-th token (1-based) is a lexicon word or an all-digit token whose
\* value is 0 or above 9999.
Rejected(k) == Alone(k) # None /\ Alone(k) \notin 1..9999

\* The sequence s without its k-th element.
Without(s, k) == SubSeq(s, 1, k - 1) \o SubSeq(s, k + 1, Len(s))

\* C12 as stated: a token that decodes to 0 or to more than 9999 appends
\* nothing, leaves last_number alone and does not stop the scan, and the
\* output is that of the input without the rejected token.
C12_AsStated ==
    /\ [][ ( /\ pc = "scan" /\ i < Len(tokens)
             /\ ~(tokens[i + 1] \in MULT_WORDS /\ last_number # None)
             /\ Rejected(i + 1) )
           => ( /\ results' = results
                /\ last_number' = last_number
                /\ i' = i + 1
                /\ pc' = "scan" ) ]_vars
    /\ [] ( pc = "done" =>
              \A k \in 1..Len(tokens) :
                  Rejected(k) => results = ParseSpokenNumbers(Without(tokens, k)) )

\* C12 (amended): a token at the scan position that decodes to 0 or to more
\* than 9999 appends nothing, leaves last_number alone and does not stop the
\* scan, which goes on at the next token; the output is that of the input
\* without the rejected token when that token is the first or the last one.
C12_RejectedFrame ==
    /\ [][ ( /\ pc = "scan" /\ i < Len(tokens)
             /\ ~(tokens[i + 1] \in MULT_WORDS /\ last_number # None)
             /\ Rejected(i + 1) )
           => ( /\ results' = results
                /\ last_number' = last_number
                /\ i' = i + 1
                /\ pc' = "scan" ) ]_vars
    /\ [] ( pc = "done" =>
              /\ results = ParseSpokenNumbers(tokens)
              /\ \A k \in {1, Len(tokens)} :
                     (k >= 1 /\ Rejected(k))
                         => results = ParseSpokenNumbers(Without(tokens, k)) )

\* A number, a rejected token and a number: both numbers are in the output.
C12_Witness ==
    /\ pc = "done"
    /\ Len(tokens) = 3
    /\ Alone(1) \in 1..9999
    /\ Rejected(2)
    /\ Alone(3) \in 1..9999
    /\ results = <<Alone(1), Alone(3)>>

-----------------------------------------------------------------------------
(* parse_spoken_numbers on tokens beyond the digit limit of int() *)

MaxLimitLen == 3

\* A token of INT_MAX_STR_DIGITS + 1 digits.
LongDigits == [k \in 1..(INT_MAX_STR_DIGITS + 1) |-> "1"]

\* A letter followed by INT_MAX_STR_DIGITS + 1 digits.
LetterLongDigits == <<"a">> \o LongDigits

LimitVocabulary ==
    { LongDigits, LetterLongDigits, Tok1, TokTimes, AND, TokOr }

InitLimit ==
    /\ tokens \in SeqsUpTo(LimitVocabulary, MaxLimitLen)
    /\ NoPairs
    /\ OthersIdle
    /\ i = 0
    /\ results = <<>>
    /\ last_number = None
    /\ start = 0
    /\ number = None
    /\ consumed = 0
    /\ matched = 0
    /\ embedded = 0
    /\ copies = 0
    /\ absorbed = 0
    /\ pc = "scan"

NextLimit ==
    \/ Next
    \/ RaiseValueError

SpecLimit == InitLimit /\ [][NextLimit]_vars

\* No token holds a digit or is a lexicon word.
NoNumberText ==
    \A k \in 1..Len(tokens) :
        /\ tokens[k] \notin DOMAIN WORD_TO_NUM
        /\ \A c \in 1..Len(tokens[k]) : tokens[k][c] \notin Digits

\* C13: parse_spoken_numbers never raises, and a text without a digit and
\* without a lexicon word (empty, or only skip and multiplier words and
\* unknown words) gives the empty list.
C13_NeverRaises ==
    /\ pc # "raised"
    /\ (pc = "done" /\ NoNumberText) => results = <<>>

-----------------------------------------------------------------------------
(* parse_card_quantities: the pair extractor *)

MaxPairLen == 4

\* The confidences, in hundredths.
CONF_EXPLICIT == 98
CONF_DEFAULT == 85
CONF_FALLBACK == 70
CONF_ZERO_CAP == 50
DEFAULT_QTY == 1

CARD == <<"c","a","r","d">>

KW_Q == <<"q">>
KW_QUE == <<"q","u","e">>
KW_CUE == <<"c","u","e">>
KW_QTY == <<"q","t","y">>
KW_QUANTITY == <<"q","u","a","n","t","i","t","y">>
KW_COUNT == <<"c","o","u","n","t">>
KW_X == <<"x">>
KW_TIMES == <<"t","i","m","e","s">>

\* line 221
QTY_TOKENS ==
    { KW_Q, KW_QUE, KW_CUE, KW_QTY, KW_QUANTITY, KW_COUNT, KW_X, KW_TIMES }

\* The keywords of which another keyword, 'q', is a prefix.
LongQKeywords == { KW_QUE, KW_QTY, KW_QUANTITY }

\* [a-z] of the regular expression at line 336
Letters ==
    { "a","b","c","d","e","f","g","h","i","j","k","l","m",
      "n","o","p","q","r","s","t","u","v","w","x","y","z" }

\* s.startswith(kw)
StartsWith(s, kw) == Len(s) >= Len(kw) /\ SubSeq(s, 1, Len(kw)) = kw

\* s[n:], the string s without its first n characters
DropPrefix(s, n) == SubSeq(s, n + 1, Len(s))

\* The length of the longest prefix of s made of characters of the set cs:
\* what a greedy ^(\d+) or ([a-z]+) matches at the start of s.
PrefixLen(s, cs) ==
    Cardinality({n \in 1..Len(s) : \A k \in 1..n : s[k] \in cs})

\* Mutant of MatchKeyword: no token is taken for a quantity keyword.
MatchKeyword_Never(s, qb) == <<>>

\* "for kw in QTY_TOKENS: if s.startswith(kw): ... break": the keyword the
\* loop stops at, <<>> when it stops at none.  When two keywords are prefixes
\* of s they are 'q' and one of LongQKeywords, and the one iterated first is
\* taken; qb holds the keywords that 'q' precedes.
MatchKeyword(s, qb) ==
    LET ms == {kw \in QTY_TOKENS : StartsWith(s, kw)}
        long == ms \cap LongQKeywords
    IN  IF ms = {} THEN <<>>
        ELSE IF long = {} THEN CHOOSE kw \in ms : TRUE
        ELSE IF (CHOOSE kw \in long : TRUE) \in qb THEN KW_Q
        ELSE CHOOSE kw \in long : TRUE

\* int(m.group(1)) for m = re.match(r'^(\d+)', s), None when there is no match
LeadingNumber(s) ==
    IF PrefixLen(s, Digits) = 0 THEN None
    ELSE DecimalValue(SubSeq(s, 1, PrefixLen(s, Digits)))

\* lines 246-266: the search for the card id from position pos on; i is the
\* position after the id, token_remainder what follows the leading digits of
\* the id token (<<>> for None and for '').
RECURSIVE FindCardId(_, _)
FindCardId(toks, pos) ==
    IF pos >= Len(toks)
    THEN [card_id |-> None, i |-> pos, token_remainder |-> <<>>]
    ELSE LET token == toks[pos + 1]
             r == ParseCompoundNumber(toks, pos)
         IN  IF r.number # None
             THEN [card_id |-> r.number, i |-> pos + r.consumed,
                   token_remainder |-> <<>>]
             ELSE IF IsAllDigits(token)
             THEN [card_id |-> DecimalValue(token), i |-> pos + 1,
                   token_remainder |-> <<>>]
             ELSE IF LeadingNumber(token) # None
             THEN [card_id |-> LeadingNumber(token), i |-> pos + 1,
                   token_remainder |->
                       DropPrefix(token, PrefixLen(token, Digits))]
             ELSE FindCardId(toks, pos + 1)

\* lines 275-286: a quantity keyword and a number in the rest of the id token
RemainderCheck(token_remainder, qb) ==
    LET kw == MatchKeyword(token_remainder, qb)
        qty_remainder == DropPrefix(token_remainder, Len(kw))
    IN  IF token_remainder = <<>> \/ kw = <<>>
        THEN [explicit_qty_token |-> FALSE, qty |-> None,
              qty_found_in_token |-> FALSE]
        ELSE IF LeadingNumber(qty_remainder) # None
        THEN [explicit_qty_token |-> TRUE, qty |-> LeadingNumber(qty_remainder),
              qty_found_in_token |-> TRUE]
        ELSE [explicit_qty_token |-> TRUE, qty |-> None,
              qty_found_in_token |-> FALSE]

\* lines 334-343: a token of digits followed by letters that are a keyword
SuffixedNumber(token) ==
    LET n == PrefixLen(token, Digits)
        trailing_letters ==
            SubSeq(token, n + 1, n + PrefixLen(DropPrefix(token, n), Letters))
    IN  IF n > 0 /\ trailing_letters \in QTY_TOKENS
        THEN DecimalValue(SubSeq(token, 1, n)) ELSE None

\* lines 290-356: the search for the quantity from position pos on, entered
\* with the given explicit_qty_token.  via names the branch that set qty:
\* "attached" (line 319), "next" (lines 324-331), "suffix" (line 340),
\* "positional" (lines 346-353), "none" when the loop ends without a qty.
RECURSIVE QtySearch(_, _, _, _)
QtySearch(toks, pos, explicit, qb) ==
    IF pos >= Len(toks)
    THEN [qty |-> None, explicit_qty_token |-> explicit, via |-> "none"]
    ELSE LET token == toks[pos + 1]
             qty_keyword == MatchKeyword(token, qb)
             qty_remainder == DropPrefix(token, Len(qty_keyword))
         IN
         IF token \in SKIP_WORDS THEN QtySearch(toks, pos + 1, explicit, qb)
         ELSE IF qty_keyword # <<>>
         THEN IF LeadingNumber(qty_remainder) # None
              THEN [qty |-> LeadingNumber(qty_remainder),
                    explicit_qty_token |-> TRUE, via |-> "attached"]
              ELSE IF pos + 1 < Len(toks)
              THEN LET r == ParseCompoundNumber(toks, pos + 1) IN
                   IF r.number # None
                   THEN [qty |-> r.number, explicit_qty_token |-> TRUE,
                         via |-> "next"]
                   ELSE IF LeadingNumber(toks[pos + 2]) # None
                   THEN [qty |-> LeadingNumber(toks[pos + 2]),
                         explicit_qty_token |-> TRUE, via |-> "next"]
                   ELSE QtySearch(toks, pos + 1, TRUE, qb)
              ELSE QtySearch(toks, pos + 1, TRUE, qb)
         ELSE IF SuffixedNumber(token) # None
         THEN [qty |-> SuffixedNumber(token), explicit_qty_token |-> explicit,
               via |-> "suffix"]
         ELSE LET r == ParseCompoundNumber(toks, pos) IN
              IF r.number # None
              THEN [qty |-> r.number, explicit_qty_token |-> explicit,
                    via |-> "positional"]
              ELSE IF IsAllDigits(token)
              THEN [qty |-> DecimalValue(token),
                    explicit_qty_token |-> explicit, via |-> "positional"]
              ELSE QtySearch(toks, pos + 1, explicit, qb)

\* lines 272-356: the quantity of a segment whose card id was found
FindQty(toks, id, qb) ==
    LET rc == RemainderCheck(id.token_remainder, qb) IN
    IF rc.qty_found_in_token
    THEN [qty |-> rc.qty, explicit_qty_token |-> TRUE, via |-> "id token"]
    ELSE QtySearch(toks, id.i, rc.explicit_qty_token, qb)

\* Mutant of Confidence: the keyword is not credited.
Confidence_AlwaysFallback(qty, explicit) ==
    IF qty = None THEN CONF_DEFAULT ELSE CONF_FALLBACK

\* Mutant of Confidence: a missing quantity is rated like a positional one.
Confidence_DefaultAsFallback(qty, explicit) ==
    IF qty # None /\ explicit THEN CONF_EXPLICIT ELSE CONF_FALLBACK

\* lines 360-369
Confidence(qty, explicit) ==
    IF qty = None THEN CONF_DEFAULT
    ELSE IF explicit THEN CONF_EXPLICIT
    ELSE CONF_FALLBACK

\* Mutant of CapZero: a zero quantity halves the confidence.
CapZero_Halves(qty, conf) == IF qty = 0 THEN conf \div 2 ELSE conf

\* Mutant of CapZero: a zero quantity keeps its confidence.
CapZero_Keeps(qty, conf) == conf

\* lines 374-376: confidence = min(confidence, 0.5) for a zero quantity
CapZero(qty, conf) ==
    IF qty = 0 /\ conf > CONF_ZERO_CAP THEN CONF_ZERO_CAP ELSE conf

\* abs(qty), line 373
Abs(n) == IF n < 0 THEN -n ELSE n

\* lines 359-378: the tuple appended for a card id and a search result
MakePair(card_id, found) ==
    LET qty == IF found.qty = None THEN DEFAULT_QTY ELSE Abs(found.qty)
    IN  [card_id |-> card_id,
         qty |-> qty,
         confidence |-> CapZero(qty, Confidence(found.qty, found.explicit_qty_token))]

\* lines 229 and 233: the non-empty runs of tokens between the tokens 'card'.
\* (The tokens hold letters and digits only, so that \bcard\b matches the
\* tokens that are 'card' and nothing inside a token.)
RECURSIVE SplitOnCard(_)
SplitOnCard(toks) ==
    IF toks = <<>> THEN <<>>
    ELSE IF Head(toks) = CARD THEN SplitOnCard(Tail(toks))
    ELSE LET n == PrefixLen(toks, {t \in {toks[k] : k \in 1..Len(toks)} : t # CARD})
         IN  <<SubSeq(toks, 1, n)>> \o SplitOnCard(DropPrefix(toks, n))

TokQ == KW_Q
TokQ2 == <<"q","2">>
TokQty2 == <<"q","t","y","2">>
Tok9q == <<"9","q">>

PairVocabulary ==
    { CARD, Tok1, Tok0, TokQ, TokQ2, TokQty2, Tok9q, Tok55q20, TokOr, AND }

InitPairs ==
    /\ tokens \in SeqsUpTo(PairVocabulary, MaxPairLen)
    /\ q_before \in SUBSET LongQKeywords
    /\ pc = "split"
    /\ OthersIdle
    /\ parts = <<>>
    /\ p = 0
    /\ pairs = <<>>
    /\ how = <<>>
    /\ i = 0
    /\ results = <<>>
    /\ last_number = None
    /\ start = 0
    /\ number = None
    /\ consumed = 0
    /\ matched = 0
    /\ embedded = 0
    /\ copies = 0
    /\ absorbed = 0

\* lines 217-230: the text is cut into segments
SplitParts ==
    /\ pc = "split"
    /\ parts' = SplitOnCard(tokens)
    /\ pc' = "parts"
    /\ UNCHANGED <<tokens, p, pairs, how, q_before>>
    /\ UNCHANGED scanLocals
    /\ UNCHANGED otherVars

\* The segment gone through next, and its card id.
Part == parts[p + 1]
PartId == FindCardId(Part, 0)

\* Mutant of AppendPair: the pair of a segment is appended twice.
AppendPair_Twice ==
    /\ pc = "parts"
    /\ p < Len(parts)
    /\ PartId.card_id # None
    /\ LET found == FindQty(Part, PartId, q_before)
           pair == MakePair(PartId.card_id, found)
           h == [part |-> p + 1, via |-> found.via,
                 explicit_qty_token |-> found.explicit_qty_token]
       IN
       /\ pairs' = pairs \o <<pair, pair>>
       /\ how' = how \o <<h, h>>
    /\ p' = p + 1
    /\ UNCHANGED <<tokens, parts, q_before, pc>>
    /\ UNCHANGED scanLocals
    /\ UNCHANGED otherVars

\* lines 232-378: a segment with a card id gives one pair
AppendPair ==
    /\ pc = "parts"
    /\ p < Len(parts)
    /\ PartId.card_id # None
    /\ LET found == FindQty(Part, PartId, q_before) IN
       /\ pairs' = Append(pairs, MakePair(PartId.card_id, found))
       /\ how' = Append(how, [part |-> p + 1, via |-> found.via,
                              explicit_qty_token |-> found.explicit_qty_token])
    /\ p' = p + 1
    /\ UNCHANGED <<tokens, parts, q_before, pc>>
    /\ UNCHANGED scanLocals
    /\ UNCHANGED otherVars

\* lines 232-269: a segment without a card id is passed over
DropPart ==
    /\ pc = "parts"
    /\ p < Len(parts)
    /\ PartId.card_id = None
    /\ p' = p + 1
    /\ UNCHANGED <<tokens, parts, pairs, how, q_before, pc>>
    /\ UNCHANGED scanLocals
    /\ UNCHANGED otherVars

\* line 380
ReturnPairs ==
    /\ pc = "parts"
    /\ p = Len(parts)
    /\ pc' = "done"
    /\ UNCHANGED <<tokens, parts, p, pairs, how, q_before>>
    /\ UNCHANGED scanLocals
    /\ UNCHANGED otherVars

NextPairs ==
    \/ SplitParts
    \/ AppendPair
    \/ DropPart
    \/ ReturnPairs

SpecPairs == InitPairs /\ [][NextPairs]_vars

-----------------------------------------------------------------------------
(* Properties of the pair extractor *)

\* The k-th returned pair, the segment it came from and the card id search
\* of that segment.
PartOf(k) == parts[how[k].part]
IdOf(k) == FindCardId(PartOf(k), 0)

C16_FallbackConfidence ==
    \A k \in 1..Len(pairs) :
        how[k].via \in {"suffix", "positional"}
            => pairs[k].confidence = IF pairs[k].qty = 0 THEN 50 ELSE 70

\* Position j (0-based) of the segment holds a quantity keyword that has a
\* number attached or following it.
UsableKeywordAt(part, j, qb) ==
    /\ j < Len(part)
    /\ part[j + 1] \notin SKIP_WORDS
    /\ MatchKeyword(part[j + 1], qb) # <<>>
    /\ \/ LeadingNumber(DropPrefix(part[j + 1],
                                   Len(MatchKeyword(part[j + 1], qb)))) # None
       \/ /\ j + 1 < Len(part)
          /\ \/ ParseCompoundNumber(part, j + 1).number # None
             \/ LeadingNumber(part[j + 2]) # None

\* The number of the keyword at position j: attached, or else following.
KeywordNumber(part, j, qb) ==
    LET attached == LeadingNumber(DropPrefix(part[j + 1],
                                             Len(MatchKeyword(part[j + 1], qb))))
    IN  IF attached # None THEN attached
        ELSE IF ParseCompoundNumber(part, j + 1).number # None
        THEN ParseCompoundNumber(part, j + 1).number
        ELSE LeadingNumber(part[j + 2])

\* The positions after the card id that hold a usable quantity keyword.
UsableKeywords(k) ==
    {j \in IdOf(k).i..(Len(PartOf(k)) - 1) : UsableKeywordAt(PartOf(k), j, q_before)}

\* The least element of a non-empty set of numbers.
Min(S) == CHOOSE m \in S : \A n \in S : m <= n

\* C17: the quantity is chosen in priority order over the whole segment: when
\* some token after the card id is a quantity keyword with a number attached
\* or following, qty is that number and the confidence is 0.98, whatever bare
\* number stands before the keyword; a bare number is the qty only when the
\* segment has no usable keyword.
C17_KeywordPriority ==
    \A k \in 1..Len(pairs) :
        /\ (how[k].via # "id token" /\ UsableKeywords(k) # {})
               => /\ pairs[k].qty =
                         KeywordNumber(PartOf(k), Min(UsableKeywords(k)), q_before)
                  /\ pairs[k].qty # 0 => pairs[k].confidence = 98
        /\ how[k].via \in {"suffix", "positional"} => UsableKeywords(k) = {}

\* No token of the segment from position pos (0-based) on holds a digit or is
\* a lexicon word.
NoNumberFrom(part, pos) ==
    \A j \in (pos + 1)..Len(part) :
        /\ part[j] \notin DOMAIN WORD_TO_NUM
        /\ \A c \in 1..Len(part[j]) : part[j][c] \notin Digits

\* C18: a segment with a card id and no quantity after it gives (id, 1, 0.85).
C18_DefaultQuantity ==
    \A k \in 1..Len(pairs) :
        /\ how[k].via = "none"
               => (pairs[k].qty = 1 /\ pairs[k].confidence = 85)
        /\ ( /\ NoNumberFrom(PartOf(k), IdOf(k).i)
             /\ NoNumberFrom(<<IdOf(k).token_remainder>>, 0) )
               => pairs[k] = [card_id |-> IdOf(k).card_id, qty |-> 1,
                              confidence |-> 85]

\* 'card 1 or' gave (1, 1, 0.85).
C18_Witness ==
    /\ pc = "done"
    /\ tokens = <<CARD, Tok1, TokOr>>
    /\ how = <<[part |-> 1, via |-> "none", explicit_qty_token |-> FALSE]>>
    /\ pairs = <<[card_id |-> 1, qty |-> 1, confidence |-> 85]>>

\* C19: a pair whose quantity resolves to 0 is returned, with a confidence of
\* at most 0.5 whichever way the quantity was found, and no pair has a
\* negative quantity.
C19_ZeroQuantity ==
    /\ \A k \in 1..Len(pairs) :
           /\ pairs[k].qty >= 0
           /\ pairs[k].qty = 0 => pairs[k].confidence <= 50
    /\ pc = "done" =>
           \A j \in 1..Len(parts) :
               LET id == FindCardId(parts[j], 0) IN
               (id.card_id # None /\ FindQty(parts[j], id, q_before).qty = 0)
                   => \E k \in 1..Len(pairs) :
                          how[k].part = j /\ pairs[k].qty = 0

\* 'card 1 q 0' gave (1, 0, 0.5): a zero found by way of a keyword.
C19_Witness ==
    /\ pc = "done"
    /\ tokens = <<CARD, Tok1, TokQ, Tok0>>
    /\ how = <<[part |-> 1, via |-> "next", explicit_qty_token |-> TRUE]>>
    /\ pairs = <<[card_id |-> 1, qty |-> 0, confidence |-> 50]>>

\* The segment holds a token the compound matcher decodes or a token that
\* starts with digits.
HasCardId(part) ==
    \E j \in 1..Len(part) :
        \/ ParseCompoundNumber(part, j - 1).number # None
        \/ PrefixLen(part[j], Digits) > 0

\* C20: one pair for each non-empty segment that holds a card id and none for
\* a segment without one, in segment order, whatever further numbers the
\* segment holds.
C20_OnePairPerSegment ==
    /\ \A j \in 1..Len(parts) : parts[j] # <<>>
    /\ \A k \in 1..Len(pairs) :
           /\ how[k].part \in 1..p
           /\ HasCardId(PartOf(k))
           /\ pairs[k].card_id = IdOf(k).card_id
    /\ \A k \in 1..(Len(pairs) - 1) : how[k].part < how[k + 1].part
    /\ Len(pairs) = Cardinality({j \in 1..p : HasCardId(parts[j])})
    /\ pc = "done" => p = Len(parts)

\* 'or card 1 0': the segment without a card id gave no pair, the segment
\* '1 0' gave the only pair.
C20_Witness ==
    /\ pc = "done"
    /\ Len(parts) = 2
    /\ ~HasCardId(parts[1])
    /\ parts[2] = <<Tok1, Tok0>>
    /\ Len(pairs) = 1
    /\ how[1].part = 2
    /\ pairs[1].card_id = 1

\* The text does not begin with 'card': its first segment stands before the
\* first 'card'.
HasLeadingSegment == tokens # <<>> /\ tokens[1] # CARD

\* C21: only the segments that follow an occurrence of 'card' are kept: the
\* text before the first 'card' gives no pair.
C21_LeadingTextDropped ==
    (pc = "done" /\ HasLeadingSegment)
        => \A k \in 1..Len(pairs) : how[k].part # 1

\* lines 232-378 as a function: the pairs of a list of segments when the
\* QTY_TOKENS set is iterated in an order described by qb.
RECURSIVE PairsOfParts(_, _)
PairsOfParts(ps, qb) ==
    IF ps = <<>> THEN <<>>
    ELSE LET id == FindCardId(Head(ps), 0)
             here == IF id.card_id = None THEN <<>>
                     ELSE <<MakePair(id.card_id, FindQty(Head(ps), id, qb))>>
         IN  here \o PairsOfParts(Tail(ps), qb)

\* parse_card_quantities on a token sequence, for an iteration order of the
\* QTY_TOKENS set
ParseCardQuantities(toks, qb) == PairsOfParts(SplitOnCard(toks), qb)

\* C22: the list of pairs depends on the input text only, not on the order in
\* which the keywords of the QTY_TOKENS set are tried: every order gives the
\* list that was returned.
C22_Deterministic ==
    pc = "done" =>
        \A qb \in SUBSET LongQKeywords : ParseCardQuantities(tokens, qb) = pairs

-----------------------------------------------------------------------------
(* count_cards and format_output *)

MaxNumbers == 4

\* counts.get(key, default)
DictGet(d, key, default) ==
    IF key \in DOMAIN d.val THEN d.val[key] ELSE default

\* counts[key] = v: a new key goes behind the keys there are
DictSet(d, key, v) ==
    [keys |-> IF key \in DOMAIN d.val THEN d.keys ELSE Append(d.keys, key),
     val |-> [x \in (DOMAIN d.val) \cup {key} |->
                  IF x = key THEN v ELSE d.val[x]]]

\* lines 388-391 as a function: the dict after the elements from position pos
\* (0-based) on have been counted into d
RECURSIVE CountFrom(_, _, _)
CountFrom(nums, pos, d) ==
    IF pos >= Len(nums) THEN d
    ELSE CountFrom(nums, pos + 1,
                   DictSet(d, nums[pos + 1], DictGet(d, nums[pos + 1], 0) + 1))

\* count_cards(numbers)
CountCards(nums) == CountFrom(nums, 0, EmptyDict)

\* The sequences that hold the elements of s in some order.
PermutationsOf(s) ==
    { [k \in 1..Len(s) |-> s[f[k]]] :
        f \in {g \in [1..Len(s) -> 1..Len(s)] :
                  \A a, b \in 1..Len(s) : a # b => g[a] # g[b]} }

\* Mutant of Sorted: the keys stay in insertion order.
Sorted_InsertionOrder(s) == s

\* sorted(s) for a list of integers
Sorted(s) ==
    CHOOSE t \in PermutationsOf(s) :
        \A a, b \in 1..Len(t) : a < b => t[a] <= t[b]

\* str(d) for 0 <= d <= 9
DigitChar(d) == CHOOSE c \in Digits : DigitValue(c) = d

\* str(n) for n >= 0
RECURSIVE IntToStr(_)
IntToStr(n) ==
    IF n < 10 THEN <<DigitChar(n)>>
    ELSE IntToStr(n \div 10) \o <<DigitChar(n % 10)>>

\* Mutant of Entry: the count is shown for every value.
Entry_AlwaysCount(n, count) == IntToStr(n) \o <<" ", "x">> \o IntToStr(count)

\* lines 400-403: f"{n} x{counts[n]}" or str(n)
Entry(n, count) ==
    IF count > 1 THEN IntToStr(n) \o <<" ", "x">> \o IntToStr(count)
    ELSE IntToStr(n)

\* sep.join(strs)
RECURSIVE Join(_, _)
Join(sep, strs) ==
    IF strs = <<>> THEN <<>>
    ELSE IF Len(strs) = 1 THEN strs[1]
    ELSE strs[1] \o sep \o Join(sep, Tail(strs))

HAVE_PREFIX == <<"H", "a", "v", "e", ":", " ">>
COMMA == <<",", " ">>

\* format_output(numbers)
FormatOutput(nums) ==
    LET d == CountCards(nums)
        ks == Sorted(d.keys)
    IN  HAVE_PREFIX \o Join(COMMA, [k \in 1..Len(ks) |-> Entry(ks[k], d.val[ks[k]])])

FormatValues == {7, 42, 103}

InitFormat ==
    /\ numbers \in SeqsUpTo(FormatValues, MaxNumbers)
    /\ counts = EmptyDict
    /\ cpos = 0
    /\ sorted_nums = <<>>
    /\ fparts = <<>>
    /\ fpos = 0
    /\ output = <<>>
    /\ pc = "count"
    /\ IdleExceptFormat

\* lines 389-390: one iteration of the loop of count_cards
CountStep ==
    /\ pc = "count"
    /\ cpos < Len(numbers)
    /\ counts' = DictSet(counts, numbers[cpos + 1],
                         DictGet(counts, numbers[cpos + 1], 0) + 1)
    /\ cpos' = cpos + 1
    /\ UNCHANGED <<numbers, sorted_nums, fparts, fpos, output, pc>>
    /\ UNCHANGED exceptFormat

\* lines 391, 396-398: count_cards returns and the keys are sorted
SortKeys ==
    /\ pc = "count"
    /\ cpos = Len(numbers)
    /\ sorted_nums' = Sorted(counts.keys)
    /\ pc' = "format"
    /\ UNCHANGED <<numbers, counts, cpos, fparts, fpos, output>>
    /\ UNCHANGED exceptFormat

\* lines 399-403: one iteration of the loop of format_output
FormatStep ==
    /\ pc = "format"
    /\ fpos < Len(sorted_nums)
    /\ fparts' = Append(fparts, Entry(sorted_nums[fpos + 1],
                                      counts.val[sorted_nums[fpos + 1]]))
    /\ fpos' = fpos + 1
    /\ UNCHANGED <<numbers, counts, cpos, sorted_nums, output, pc>>
    /\ UNCHANGED exceptFormat

\* line 404
ReturnOutput ==
    /\ pc = "format"
    /\ fpos = Len(sorted_nums)
    /\ output' = HAVE_PREFIX \o Join(COMMA, fparts)
    /\ pc' = "done"
    /\ UNCHANGED <<numbers, counts, cpos, sorted_nums, fparts, fpos>>
    /\ UNCHANGED exceptFormat

NextFormat ==
    \/ CountStep
    \/ SortKeys
    \/ FormatStep
    \/ ReturnOutput

SpecFormat == InitFormat /\ [][NextFormat]_vars

\* The number of positions of the list that hold v.
Occurrences(v) == Cardinality({k \in 1..Len(numbers) : numbers[k] = v})

\* The distinct values of the list, the r-th smallest of them, and the text
\* the claim gives for a value.
DistinctValues == {numbers[k] : k \in 1..Len(numbers)}
Ranked(r) ==
    CHOOSE v \in DistinctValues :
        Cardinality({w \in DistinctValues : w < v}) = r - 1
Rendered(v) ==
    IF Occurrences(v) > 1
    THEN IntToStr(v) \o <<" ", "x">> \o IntToStr(Occurrences(v))
    ELSE IntToStr(v)

\* C23: the rendered string depends on the multiset of the input only: it is
\* 'Have: ' and the distinct values in ascending order joined by ', ', each
\* with ' x<count>' exactly when it occurs more than once; every permutation
\* of the input renders the same; the empty list renders 'Have: '.
C23_FormatByMultiset ==
    pc = "done" =>
        /\ output = HAVE_PREFIX \o Join(COMMA, [r \in 1..Cardinality(DistinctValues) |->
                                            Rendered(Ranked(r))])
        /\ \A q \in PermutationsOf(numbers) : FormatOutput(q) = output
        /\ \A v \in DistinctValues : counts.val[v] = Occurrences(v)
        /\ numbers = <<>> => output = HAVE_PREFIX

\* [103, 42, 42] was rendered 'Have: 42 x2, 103'.
C23_Witness ==
    /\ pc = "done"
    /\ numbers = <<103, 42, 42>>
    /\ output = <<"H","a","v","e",":"," ","4","2"," ","x","2",",",
                  " ","1","0","3">>

-----------------------------------------------------------------------------
(* api/main.py: voice_update_quantities (PUT /api/sets/{set_id}/voice-qty) *)

MaxTextLen == 2
MaxCalls == 2

HTTP_OK == 200
HTTP_NOT_FOUND == 404

\* The card sets of the database, the cards of the one set (by the number
\* whose str() is their card_number), their insert type, and the quantities
\* they start with.
ExistingSets == {1}
DbCards == {1, 3}
DbInsertType == "Base"
InitialQty == {0, 2}

RequestSets == {1, 2}
RequestInsertTypes == {"Base", "Refractor"}
EndpointVocabulary == { Tok1, TokThree, TokForty, CARD }

\* sub in s, for strings as character sequences
HasSubstring(s, sub) ==
    \E a \in 0..(Len(s) - Len(sub)) : SubSeq(s, a + 1, a + Len(sub)) = sub

\* 'card' in text.lower(), line 286
ContainsCard(text) == \E k \in 1..Len(text) : HasSubstring(text[k], CARD)

\* The cards that the query of lines 293-297 / 319-323 finds.
FoundCards(insert_type) ==
    IF insert_type = DbInsertType THEN DbCards ELSE {}

\* lines 292-303: the pairs from position pos (0-based) on are applied in
\* order, card.qty = qty for each card found
RECURSIVE ApplyPairs(_, _, _, _)
ApplyPairs(st, prs, pos, found) ==
    IF pos >= Len(prs) THEN st
    ELSE LET pr == prs[pos + 1]
         IN  ApplyPairs(IF pr.card_id \in found
                        THEN [st EXCEPT ![pr.card_id] = pr.qty] ELSE st,
                        prs, pos + 1, found)

\* lines 318-329: card.qty = qty for each counted number whose card is found
ApplyCounts(st, d, found) ==
    [c \in DOMAIN st |->
        IF c \in found /\ c \in DOMAIN d.val THEN d.val[c] ELSE st[c]]

InitEndpoint ==
    /\ stored \in [DbCards -> InitialQty]
    /\ calls = 0
    /\ before = stored
    /\ request = NoRequest
    /\ response = NoResponse
    /\ pc = "serve"
    /\ IdleExceptEndpoint

\* lines 273-275: the set does not exist
VoiceQtyNoSet ==
    /\ pc = "serve"
    /\ calls < MaxCalls
    /\ \E text \in SeqsUpTo(EndpointVocabulary, MaxTextLen),
          set_id \in RequestSets \ ExistingSets,
          insert_type \in RequestInsertTypes :
          /\ request' = [text |-> text, set_id |-> set_id,
                         insert_type |-> insert_type]
          /\ response' = [status |-> HTTP_NOT_FOUND]
    /\ before' = stored
    /\ calls' = calls + 1
    /\ UNCHANGED <<stored, pc>>
    /\ UNCHANGED exceptEndpoint

\* lines 286-309: the text holds 'card'; the parsed quantities are stored
VoiceQtyPairs ==
    /\ pc = "serve"
    /\ calls < MaxCalls
    /\ \E text \in SeqsUpTo(EndpointVocabulary, MaxTextLen),
          set_id \in ExistingSets,
          insert_type \in RequestInsertTypes :
          /\ ContainsCard(text)
          /\ \E prs \in {ParseCardQuantities(text, qb) : qb \in SUBSET LongQKeywords},
                found \in {FoundCards(insert_type)} :
             /\ stored' = ApplyPairs(stored, prs, 0, found)
             /\ response' =
                    [status |-> HTTP_OK,
                     parsed_pairs |-> prs,
                     updated |-> Cardinality({k \in 1..Len(prs) :
                                                 prs[k].card_id \in found}),
                     not_found |-> SelectSeq([k \in 1..Len(prs) |-> prs[k].card_id],
                                             LAMBDA c : c \notin found)]
          /\ request' = [text |-> text, set_id |-> set_id,
                         insert_type |-> insert_type]
    /\ before' = stored
    /\ calls' = calls + 1
    /\ UNCHANGED pc
    /\ UNCHANGED exceptEndpoint

\* lines 311-339: no 'card' in the text; the counts of the parsed numbers are
\* stored
VoiceQtyCounts ==
    /\ pc = "serve"
    /\ calls < MaxCalls
    /\ \E text \in SeqsUpTo(EndpointVocabulary, MaxTextLen),
          set_id \in ExistingSets,
          insert_type \in RequestInsertTypes :
          /\ ~ContainsCard(text)
          /\ \E nums \in {ParseSpokenNumbers(text)},
                found \in {FoundCards(insert_type)} :
             \E d \in {CountCards(nums)} :
             /\ stored' = ApplyCounts(stored, d, found)
             /\ response' =
                    [status |-> HTTP_OK,
                     parsed_numbers |-> nums,
                     counts |-> d,
                     updated |-> Cardinality({c \in DOMAIN d.val : c \in found}),
                     not_found |-> SelectSeq(d.keys, LAMBDA c : c \notin found),
                     output |-> FormatOutput(nums)]
          /\ request' = [text |-> text, set_id |-> set_id,
                         insert_type |-> insert_type]
    /\ before' = stored
    /\ calls' = calls + 1
    /\ UNCHANGED pc
    /\ UNCHANGED exceptEndpoint

NextEndpoint ==
    \/ VoiceQtyNoSet
    \/ VoiceQtyPairs
    \/ VoiceQtyCounts

SpecEndpoint == InitEndpoint /\ [][NextEndpoint]_vars

\* The last request was answered from the numbers of a text without 'card'.
AnsweredFromCounts ==
    /\ response.status = HTTP_OK
    /\ ~ContainsCard(request.text)

\* How often the last request's text mentions card c.
Mentions(c) ==
    Cardinality({k \in 1..Len(response.parsed_numbers) :
                    response.parsed_numbers[k] = c})

\* C24: on a text without 'card' each mention of a number adds 1 to the
\* stored quantity of its card: after the request the quantity of every
\* matched card is its quantity before the request plus the number of times
\* its number was parsed, so that quantities add up over successive requests.
C24_MentionsAccumulate ==
    AnsweredFromCounts =>
        \A c \in FoundCards(request.insert_type) :
            Mentions(c) > 0 => stored[c] = before[c] + Mentions(c)

-----------------------------------------------------------------------------
(* tcdb-scraper/http_client.py: TcdbClient.get *)

MaxRetries == 2

HTTP_FORBIDDEN == 403
HTTP_TOO_MANY == 429
HTTP_SERVER_ERROR == 500

\* Times are in hundredths of a second.
ONE_SECOND == 100
LONG_WAIT == 6000
RetryWaits == {1, 3000}

\* What a request can end in other than a response that passes
\* raise_for_status: a response with an error status, or no response at all
\* (session.get itself raises, resp stays None and status is None).
FailStatuses == {HTTP_FORBIDDEN, HTTP_TOO_MANY, HTTP_SERVER_ERROR, None}

\* range(1 + self.max_retries), line 78
Attempts(mr) == 1 + mr

\* Mutant of LastError: the first exception caught is kept.
LastError_First(old, new) == IF old = NoError THEN new ELSE old

\* last_error = e, line 86
LastError(old, new) == new

\* lines 91-93: the wait before the next attempt
RetryWait(status) ==
    IF status \in {HTTP_FORBIDDEN, HTTP_TOO_MANY}
    THEN IF retry_wait > ONE_SECOND THEN LONG_WAIT ELSE retry_wait
    ELSE retry_wait

InitClient ==
    /\ max_retries \in 0..MaxRetries
    /\ retry_wait \in RetryWaits
    /\ attempt = 0
    /\ last_error = NoError
    /\ resp = NoResult
    /\ sent = <<>>
    /\ slept = <<>>
    /\ pc = "constructed"
    /\ IdleExceptClient

\* lines 73-78: get is called and enters its loop
GetCall ==
    /\ pc = "constructed"
    /\ pc' = "attempt"
    /\ attempt' = 0
    /\ last_error' = NoError
    /\ UNCHANGED <<max_retries, retry_wait, resp, sent, slept>>
    /\ UNCHANGED exceptClient

\* lines 80-84: the request is answered and raise_for_status passes
AttemptSucceeds ==
    /\ pc = "attempt"
    /\ attempt < Attempts(max_retries)
    /\ sent' = Append(sent, [attempt |-> attempt, status |-> HTTP_OK])
    /\ resp' = [kind |-> "returned",
                response |-> [attempt |-> attempt, status |-> HTTP_OK]]
    /\ pc' = "returned"
    /\ UNCHANGED <<max_retries, retry_wait, attempt, last_error, slept>>
    /\ UNCHANGED exceptClient

\* lines 80-95: the request or raise_for_status raises; the exception is
\* kept and, unless this was the last attempt, the call sleeps
AttemptFails ==
    /\ pc = "attempt"
    /\ attempt < Attempts(max_retries)
    /\ \E status \in FailStatuses :
          /\ sent' = Append(sent, [attempt |-> attempt, status |-> status])
          /\ last_error' = LastError(last_error,
                                     [attempt |-> attempt, status |-> status])
          /\ slept' = IF attempt < max_retries
                      THEN Append(slept, RetryWait(status)) ELSE slept
    /\ attempt' = attempt + 1
    /\ UNCHANGED <<max_retries, retry_wait, resp, pc>>
    /\ UNCHANGED exceptClient

\* line 97: the loop is exhausted
RaiseLastError ==
    /\ pc = "attempt"
    /\ attempt >= Attempts(max_retries)
    /\ resp' = [kind |-> "raised", error |-> last_error]
    /\ pc' = "raised"
    /\ UNCHANGED <<max_retries, retry_wait, attempt, last_error, sent, slept>>
    /\ UNCHANGED exceptClient

NextClient ==
    \/ GetCall
    \/ AttemptSucceeds
    \/ AttemptFails
    \/ RaiseLastError

SpecClient == InitClient /\ [][NextClient]_vars

\* The requests sent before the last one.
EarlierRequests == 1..(Len(sent) - 1)

\* C25: get sends one request after another until the first succeeds and
\* returns that response; it never sends more than 1 + max_retries, and when
\* all 1 + max_retries have failed it raises the error of the last of them,
\* having sent nothing more.
C25_RetryUntilSuccess ==
    /\ Len(sent) <= 1 + max_retries
    /\ \A k \in EarlierRequests : sent[k].status # HTTP_OK
    /\ \A k \in 1..Len(sent) : sent[k].attempt = k - 1
    /\ pc = "attempt" => \A k \in 1..Len(sent) : sent[k].status # HTTP_OK
    /\ pc = "returned" =>
          /\ sent # <<>>
          /\ sent[Len(sent)].status = HTTP_OK
          /\ resp = [kind |-> "returned", response |-> sent[Len(sent)]]
    /\ pc = "raised" =>
          /\ Len(sent) = 1 + max_retries
          /\ \A k \in 1..Len(sent) : sent[k].status # HTTP_OK
          /\ resp = [kind |-> "raised", error |-> sent[Len(sent)]]

\* All three attempts failed in different ways and the last error was raised.
C25_Witness ==
    /\ pc = "raised"
    /\ max_retries = 2
    /\ Len(sent) = 3
    /\ sent[1].status = HTTP_SERVER_ERROR
    /\ sent[3].status = HTTP_TOO_MANY
    /\ resp.error.status = HTTP_TOO_MANY

-----------------------------------------------------------------------------
(* tcdb-scraper/checkpoint.py: Checkpoint *)

MaxSets == 2

\* A set id as a caller passes it: an int (scraper.py passes tcdb_id) or a
\* str (the annotated type).
IntId(n) == [t |-> "int", n |-> n, s |-> <<>>]
StrId(s) == [t |-> "str", n |-> 0, s |-> s]
Ids == { IntId(1), IntId(12), StrId(<<"1">>), StrId(<<"A">>) }

\* str(set_id)
Str(id) == IF id.t = "int" THEN IntToStr(id.n) ELSE id.s

\* The dicts of a set list.
SetDicts == { [tcdb_id |-> 1, name |-> <<"A">>],
              [tcdb_id |-> 12, name |-> <<"B">>] }

\* ord(c) for the characters of the ids
Ord(c) == IF c \in Digits THEN 48 + DigitValue(c) ELSE 65

\* a < b for strings
RECURSIVE StrLess(_, _)
StrLess(a, b) ==
    IF b = <<>> THEN FALSE
    ELSE IF a = <<>> THEN TRUE
    ELSE IF Head(a) # Head(b) THEN Ord(Head(a)) < Ord(Head(b))
    ELSE StrLess(Tail(a), Tail(b))

\* sorted(self._done), line 55: the strings of a set in ascending order
RECURSIVE SortedStrings(_)
SortedStrings(S) ==
    IF S = {} THEN <<>>
    ELSE LET least == CHOOSE a \in S : \A b \in S \ {a} : StrLess(a, b)
         IN  <<least>> \o SortedStrings(S \ {least})

\* json.dump of one dict of the set list and json.load of what it wrote
DumpDict(d) == [tcdb_id |-> [number |-> d.tcdb_id], name |-> [string |-> d.name]]
LoadDict(j) == [tcdb_id |-> j.tcdb_id.number, name |-> j.name.string]

\* _persist, lines 51-58: what the file holds after the write
Persisted(sets, done) ==
    [exists |-> TRUE,
     sets |-> [k \in 1..Len(sets) |-> DumpDict(sets[k])],
     done |-> SortedStrings(done)]

\* Mutant of Loaded: the done list of the file is not read.
Loaded_NoDone(f) ==
    IF ~f.exists THEN [sets |-> <<>>, done |-> {}]
    ELSE [sets |-> [k \in 1..Len(f.sets) |-> LoadDict(f.sets[k])],
          done |-> {}]

\* __init__ and _load, lines 11-15 and 43-49: the state of a Checkpoint
\* made from the file
Loaded(f) ==
    IF ~f.exists THEN [sets |-> <<>>, done |-> {}]
    ELSE [sets |-> [k \in 1..Len(f.sets) |-> LoadDict(f.sets[k])],
          done |-> {f.done[k] : k \in 1..Len(f.done)}]

\* get_sets(), lines 26-28
GetSets == cp_sets

\* is_set_done(set_id), lines 35-37
IsSetDone(id) == Str(id) \in cp_done

InitCheckpoint ==
    /\ path_file = NoFile
    /\ cp_sets = Loaded(NoFile).sets
    /\ cp_done = Loaded(NoFile).done
    /\ marked = {}
    /\ last_saved = NeverSaved
    /\ pc = "created"
    /\ IdleExceptCheckpoint

\* save_sets(sets), lines 21-24
SaveSets ==
    /\ pc \in {"created", "saved", "marked"}
    /\ \E sets \in SeqsUpTo(SetDicts, MaxSets) :
          /\ cp_sets' = sets
          /\ path_file' = Persisted(sets, cp_done)
          /\ last_saved' = [given |-> TRUE, sets |-> sets]
    /\ pc' = "saved"
    /\ UNCHANGED <<cp_done, marked>>
    /\ UNCHANGED exceptCheckpoint

\* mark_set_done(set_id), lines 30-33
MarkSetDone ==
    /\ pc \in {"created", "saved", "marked"}
    /\ \E id \in Ids :
          /\ cp_done' = cp_done \cup {Str(id)}
          /\ path_file' = Persisted(cp_sets, cp_done \cup {Str(id)})
          /\ marked' = marked \cup {id}
    /\ pc' = "marked"
    /\ UNCHANGED <<cp_sets, last_saved>>
    /\ UNCHANGED exceptCheckpoint

\* Checkpoint(path) again: a new object takes the place of the old one and
\* loads the file
Recreate ==
    /\ pc \in {"created", "saved", "marked"}
    /\ cp_sets' = Loaded(path_file).sets
    /\ cp_done' = Loaded(path_file).done
    /\ pc' = "created"
    /\ UNCHANGED <<path_file, marked, last_saved>>
    /\ UNCHANGED exceptCheckpoint

NextCheckpoint ==
    \/ SaveSets
    \/ MarkSetDone
    \/ Recreate

SpecCheckpoint == InitCheckpoint /\ [][NextCheckpoint]_vars

\* The ids marked so far, as the strings the Checkpoint keeps them by.
MarkedStrings == {Str(id) : id \in marked}

\* C26: whatever save_sets, mark_set_done and re-creations from the file
\* have happened, is_set_done(x) holds exactly for the ids given to
\* mark_set_done before (an id being the same as another when their str()
\* is, which is how the Checkpoint keeps them); neither a reload nor
\* save_sets loses a done flag, and get_sets after a reload gives the list
\* that save_sets was given last.
C26_DoneSurvives ==
    /\ \A x \in Ids : IsSetDone(x) <=> Str(x) \in MarkedStrings
    /\ (pc = "created" /\ last_saved.given) => GetSets = last_saved.sets

\* Two ids were marked, a list of two sets was saved after that, and the
\* Checkpoint was made again from the file.
C26_Witness ==
    /\ pc = "created"
    /\ marked = {IntId(12), StrId(<<"A">>)}
    /\ last_saved.given
    /\ Len(last_saved.sets) = 2
    /\ cp_done = {<<"1", "2">>, <<"A">>}
    /\ path_file.exists
    /\ path_file.done = <<<<"1", "2">>, <<"A">>>>

-----------------------------------------------------------------------------
(* parse_spoken_numbers: the operand of a multiplier, chains of multipliers,
   and last_number *)

\* The text is a number of one token, a multiplier word, 'forty', and a units
\* token that the compound matcher would join to 'forty'.
FortyUnits == {TokThree, Tok1}

MultiplierThenTensUnits ==
    /\ Len(tokens) = 4
    /\ LET r == ParseCompoundNumber(tokens, 0)
       IN  r.number # None /\ InRange(r.number) /\ r.consumed = 1
    /\ tokens[2] \in MULT_WORDS
    /\ tokens[3] = TokForty
    /\ tokens[4] \in FortyUnits
    /\ ParseCompoundNumber(tokens, 2).consumed = 2

\* C27: the operand of a multiplier is read from the one token after the
\* multiplier word, never as a compound number: '<v> times forty three' gives
\* forty copies of v in all and then 3, not forty-three copies; 'forty 1'
\* likewise gives forty copies and then 1.
C27_OperandIsOneToken ==
    (pc = "done" /\ MultiplierThenTensUnits) =>
        LET v == ParseSingleNumber(tokens[1])
            unit == ParseSingleNumber(tokens[4])
            mult == ParseSingleNumber(tokens[3])
        IN  results = [k \in 1..mult |-> v] \o <<unit>>

C27_Witness ==
    /\ pc = "done"
    /\ tokens = <<Tok51, TokTimes, TokForty, TokThree>>
    /\ Len(results) = 41
    /\ results[40] = 51
    /\ results[41] = 3

\* C29: all through the scan last_number is unset exactly while the output is
\* empty, and is the last element of the output otherwise; so a multiplier
\* word met before any number expands nothing and the token after it is read
\* as a number ('times 1' gives [1]).
C29_LastIsLastElement ==
    /\ last_number = None <=> results = <<>>
    /\ results # <<>> => last_number = results[Len(results)]
    /\ (pc = "done" /\ Len(tokens) = 2 /\ tokens[1] \in MULT_WORDS
           /\ ParseSingleNumber(tokens[2]) # None
           /\ InRange(ParseSingleNumber(tokens[2])))
         => results = <<ParseSingleNumber(tokens[2])>>

\* 'times 51': the multiplier word came first and 51 was read as a number.
C29_Witness ==
    /\ pc = "done"
    /\ tokens = <<TokTimes, Tok51>>
    /\ results = <<51>>
    /\ last_number = 51
    /\ copies = 0

\* Texts of chained multiplier phrases.
MaxChainLen == 5

TokCount == <<"c","o","u","n","t">>

ChainVocabulary == { Tok1, TokThree, Tok51, TokTimes, TokCount, AND }

InitChain ==
    /\ tokens \in SeqsUpTo(ChainVocabulary, MaxChainLen)
    /\ NoPairs
    /\ OthersIdle
    /\ i = 0
    /\ results = <<>>
    /\ last_number = None
    /\ start = 0
    /\ number = None
    /\ consumed = 0
    /\ matched = 0
    /\ embedded = 0
    /\ copies = 0
    /\ absorbed = 0
    /\ pc = "scan"

SpecChain == InitChain /\ [][Next]_vars

\* The token is a usable operand of a multiplier.
IsOperand(token) ==
    ParseSingleNumber(token) # None /\ ValidMult(ParseSingleNumber(token))

\* The first token is a number by itself.
StartsWithNumber(toks) ==
    /\ toks # <<>>
    /\ ParseSingleNumber(toks[1]) # None
    /\ InRange(ParseSingleNumber(toks[1]))

\* The text is a number followed by one multiplier phrase after another.
IsChain(toks) ==
    /\ StartsWithNumber(toks)
    /\ Len(toks) >= 3
    /\ Len(toks) % 2 = 1
    /\ \A j \in 1..(Len(toks) \div 2) :
          toks[2 * j] \in MULT_WORDS /\ IsOperand(toks[2 * j + 1])

\* (m1 - 1) + ... + (mk - 1) for the operands from position pos (0-based) on
RECURSIVE ExtraCopies(_, _)
ExtraCopies(toks, pos) ==
    IF pos >= Len(toks) THEN 0
    ELSE (ParseSingleNumber(toks[pos + 1]) - 1) + ExtraCopies(toks, pos + 2)

\* The text is a number, two multiplier words and an operand.
IsDoubledWord(toks) ==
    /\ StartsWithNumber(toks)
    /\ Len(toks) = 4
    /\ toks[2] \in MULT_WORDS
    /\ toks[3] \in MULT_WORDS
    /\ IsOperand(toks[4])

\* C28: chained multiplier phrases all apply to the same last value and add
\* up: a number v followed by phrases with the operands m1..mk gives
\* 1 + (m1 - 1) + ... + (mk - 1) copies of v; and of two multiplier words in
\* a row the first is skipped and the second applies.
C28_ChainsAddUp ==
    pc = "done" =>
        LET v == ParseSingleNumber(tokens[1]) IN
        /\ IsChain(tokens) =>
              results = [k \in 1..(1 + ExtraCopies(tokens, 2)) |-> v]
        /\ IsDoubledWord(tokens) =>
              results = [k \in 1..ParseSingleNumber(tokens[4]) |-> v]

\* '51 count three times three' gave five 51s.
C28_Witness ==
    /\ pc = "done"
    /\ tokens = <<Tok51, TokCount, TokThree, TokTimes, TokThree>>
    /\ results = <<51, 51, 51, 51, 51>>
    /\ copies = 4

-----------------------------------------------------------------------------
(* voice/engine.py: VoiceEngine.start, stop and the two worker threads *)

MaxStarts == 3
MaxQueue == 2

\* The threads of each kind are numbered in the order of their creation.
Workers == 1..MaxStarts

Running(state) == {w \in DOMAIN state : state[w] = "running"}

InitEngine ==
    /\ is_recording = FALSE
    /\ audio_queue = 0
    /\ record_thread = None
    /\ process_thread = None
    /\ capture_state = <<>>
    /\ process_state = <<>>
    /\ engine_call = "init"
    /\ pc = "engine"
    /\ IdleExceptEngine

\* start(), lines 457-458: the engine is recording already
StartIgnored ==
    /\ pc = "engine"
    /\ is_recording
    /\ engine_call' = "start ignored"
    /\ UNCHANGED <<is_recording, audio_queue, record_thread, process_thread,
                   capture_state, process_state, pc>>
    /\ UNCHANGED exceptEngine

\* start(), lines 457-473: the flag is set and the two threads are created
\* and started
Start ==
    /\ pc = "engine"
    /\ ~is_recording
    /\ Len(capture_state) < MaxStarts
    /\ is_recording' = TRUE
    /\ capture_state' = Append(capture_state, "running")
    /\ record_thread' = Len(capture_state) + 1
    /\ process_state' = Append(process_state, "running")
    /\ process_thread' = Len(process_state) + 1
    /\ engine_call' = "start"
    /\ UNCHANGED <<audio_queue, pc>>
    /\ UNCHANGED exceptEngine

\* stop(), lines 475-479: the flag is cleared; no thread is joined
Stop ==
    /\ pc = "engine"
    /\ is_recording' = FALSE
    /\ engine_call' = "stop"
    /\ UNCHANGED <<audio_queue, record_thread, process_thread,
                   capture_state, process_state, pc>>
    /\ UNCHANGED exceptEngine

\* _capture_audio, lines 509-510: a capture thread reads the flag between
\* two sleeps, finds it False, and ends
CaptureSeesStop(w) ==
    /\ pc = "engine"
    /\ w \in Running(capture_state)
    /\ ~is_recording
    /\ capture_state' = [capture_state EXCEPT ![w] = "exited"]
    /\ UNCHANGED <<is_recording, audio_queue, record_thread, process_thread,
                   process_state, engine_call, pc>>
    /\ UNCHANGED exceptEngine

\* _capture_audio, lines 511-513: the input stream raises and the capture
\* thread ends
CaptureFails(w) ==
    /\ pc = "engine"
    /\ w \in Running(capture_state)
    /\ capture_state' = [capture_state EXCEPT ![w] = "exited"]
    /\ UNCHANGED <<is_recording, audio_queue, record_thread, process_thread,
                   process_state, engine_call, pc>>
    /\ UNCHANGED exceptEngine

\* _audio_callback, lines 515-518: the stream of a capture thread delivers a
\* chunk while the flag is set
AudioCallback(w) ==
    /\ pc = "engine"
    /\ w \in Running(capture_state)
    /\ is_recording
    /\ audio_queue < MaxQueue
    /\ audio_queue' = audio_queue + 1
    /\ UNCHANGED <<is_recording, record_thread, process_thread,
                   capture_state, process_state, engine_call, pc>>
    /\ UNCHANGED exceptEngine

\* _process_loop, lines 525-528: a processing thread in its loop takes a
\* chunk from the queue
ProcessChunk(w) ==
    /\ pc = "engine"
    /\ w \in Running(process_state)
    /\ audio_queue > 0
    /\ audio_queue' = audio_queue - 1
    /\ UNCHANGED <<is_recording, record_thread, process_thread,
                   capture_state, process_state, engine_call, pc>>
    /\ UNCHANGED exceptEngine

\* _process_loop, line 525: a processing thread reads the flag at the top of
\* its loop, finds it False, and ends
ProcessSeesStop(w) ==
    /\ pc = "engine"
    /\ w \in Running(process_state)
    /\ ~is_recording
    /\ process_state' = [process_state EXCEPT ![w] = "exited"]
    /\ UNCHANGED <<is_recording, audio_queue, record_thread, process_thread,
                   capture_state, engine_call, pc>>
    /\ UNCHANGED exceptEngine

NextEngine ==
    \/ StartIgnored
    \/ Start
    \/ Stop
    \/ \E w \in Workers : CaptureSeesStop(w)
    \/ \E w \in Workers : CaptureFails(w)
    \/ \E w \in Workers : AudioCallback(w)
    \/ \E w \in Workers : ProcessChunk(w)
    \/ \E w \in Workers : ProcessSeesStop(w)

SpecEngine == InitEngine /\ [][NextEngine]_vars

\* C30: however start(), stop() and the worker threads interleave, at most
\* one capture thread and at most one processing thread are running; a
\* start() right after a stop() does not leave two of either kind alive.
C30_OneWorkerOfEachKind ==
    /\ Cardinality(Running(capture_state)) <= 1
    /\ Cardinality(Running(process_state)) <= 1

====
